---- MODULE Spec2Model ----
(***************************************************************************)
(* Catalog data service of cafe-rio-nutrition: the Firestore collections   *)
(* (categories, items, base_items, item_categories, allergenCategories,    *)
(* allergenItems), the REST handlers of functions/index.js and the client  *)
(* services of src/services/firestore.ts and src/services/allergens.ts.    *)
(*                                                                         *)
(* JavaScript objects and Firestore documents are functions from field     *)
(* names to values; an absent field is a name outside the DOMAIN.          *)
(* Document ids are strings; "" is the empty string a blank category       *)
(* resolves to.  Timestamps are left out: no modelled decision reads them. *)
(***************************************************************************)
EXTENDS Integers, Sequences, FiniteSets, TLC

VARIABLES
    db,      \* collection name -> (document id -> document)
    nextId,  \* id kind ("cat" / "doc" / "row") -> number of ids handed out so far
    family,  \* the family of collections the run works on (see Families)
    last,    \* what the last completed operation was and what it returned
    pending, \* the operations in flight: what each has read and done so far
    session  \* the browser's sign-in state (see NoSession)

vars == <<db, nextId, family, last, pending, session>>

\* what the actions of one complete, uninterrupted call leave alone
Quiet == UNCHANGED <<family, pending, session>>

----------------------------------------------------------------------------
(* Bounds of the model *)

\* item-like documents created over a run (all item collections together)
MaxDocs == 2
\* longest array handed to a bulk endpoint or an import
MaxRows == 3
MaxAssignments == 3   \* assignment rows created over a run
MaxNewCategories == 2 \* categories created by imports over a run
\* stored objects hold at most MaxOdd keys, or miss at most MaxOdd keys
MaxOdd == 2

(* Program constants, scaled down so that MaxRows rows span two batches *)

\* batchSize of POST /items/bulk and of the legacy/allergen bulk create (500)
RestBatchSize == 2
\* batchSize of the normalized bulkCreateItems and of the migration (400)
NormBatchSize == 2
\* batchSize of handleNutritionImport / handleAllergenImport (50)
ImportBatchSize == 2

----------------------------------------------------------------------------
(* JavaScript values *)

EmptyObject == <<>>

Has(o, k) == k \in DOMAIN o

\* { ...a, ...b }
Spread(a, b) ==
    [k \in DOMAIN a \cup DOMAIN b |-> IF k \in DOMAIN b THEN b[k] ELSE a[k]]

\* o.k || dflt, for a string or id field (undefined and '' are falsy)
StrOr(o, k, dflt) == IF Has(o, k) /\ o[k] # "" THEN o[k] ELSE dflt

\* o.k || dflt, for an object field (only undefined is falsy)
ObjOr(o, k, dflt) == IF Has(o, k) THEN o[k] ELSE dflt

\* !o.k for a string field
Blank(o, k) == ~Has(o, k) \/ o[k] = ""

NutritionKeyOrder ==
    << "calories", "caloriesFromFat", "totalFat", "saturatedFat", "transFat",
       "polyunsaturatedFat", "monounsaturatedFat", "cholesterol", "sodium",
       "potassium", "totalCarbs", "dietaryFiber", "totalSugars", "addedSugars",
       "protein" >>

NutritionKeys == {NutritionKeyOrder[i] : i \in 1..Len(NutritionKeyOrder)}

emptyNutrition == [k \in NutritionKeys |-> 0]

AllergenKeyOrder ==
    << "egg", "fish", "milk", "peanuts", "sesame", "shellfish", "soy",
       "treeNuts", "wheat", "gluten", "vegan", "vegetarian" >>

AllergenKeys == {AllergenKeyOrder[i] : i \in 1..Len(AllergenKeyOrder)}

emptyAllergenFlags == [k \in AllergenKeys |-> FALSE]

----------------------------------------------------------------------------
(* The document store: collections, auto ids, atomic write batches *)

Collections ==
    {"categories", "items", "base_items", "item_categories",
     "allergenCategories", "allergenItems"}

EmptyDb == [c \in Collections |-> <<>>]

CatIdPool == <<"n1", "n2", "n3", "n4">>
DocIdPool == <<"d1", "d2", "d3", "d4", "d5", "d6", "d7", "d8">>

\* an id no document ever has (a caller may still name it)
UnknownId == "zz"

\* the n-th auto id after those handed out so far
NewDocId(n) == DocIdPool[nextId.doc + n]

DocRoom(n) == nextId.doc + n <= MaxDocs /\ nextId.doc + n <= Len(DocIdPool)

Ids(coll) == DOMAIN db[coll]

Put(c, id, doc) == [x \in DOMAIN c \cup {id} |-> IF x = id THEN doc ELSE c[x]]

Remove(c, id) == [x \in DOMAIN c \ {id} |-> c[x]]

\* writes of a batch
SetW(coll, id, doc) == [op |-> "set", coll |-> coll, id |-> id, doc |-> doc, inc |-> 0]
UpdW(coll, id, fields, inc) ==
    [op |-> "update", coll |-> coll, id |-> id, doc |-> fields, inc |-> inc]
DelW(coll, id) == [op |-> "delete", coll |-> coll, id |-> id, doc |-> EmptyObject, inc |-> 0]

\* update(): merge the given fields, and add inc to itemCount (FieldValue.increment)
Updated(doc, w) ==
    LET merged == Spread(doc, w.doc)
    IN  IF w.inc = 0 THEN merged
        ELSE Spread(merged,
                    [k \in {"itemCount"} |->
                        (IF Has(merged, "itemCount") THEN merged.itemCount ELSE 0) + w.inc])

ApplyWrite(d, w) ==
    CASE w.op = "set"    -> [d EXCEPT ![w.coll] = Put(@, w.id, w.doc)]
      [] w.op = "update" -> [d EXCEPT ![w.coll] = Put(@, w.id, Updated(@[w.id], w))]
      [] w.op = "delete" -> [d EXCEPT ![w.coll] = Remove(@, w.id)]

\* a batch commits as a whole or not at all: update() of a document that does
\* not exist (or of the empty id) fails the commit
CommitOK(d, ws) ==
    \A i \in 1..Len(ws) : ws[i].op = "update" => ws[i].id \in DOMAIN d[ws[i].coll]

RECURSIVE ApplyAll(_, _)
ApplyAll(d, ws) ==
    IF ws = <<>> THEN d ELSE ApplyAll(ApplyWrite(d, Head(ws)), Tail(ws))

Commit(d, ws) == IF CommitOK(d, ws) THEN ApplyAll(d, ws) ELSE d

----------------------------------------------------------------------------
(* Inputs *)

Names == {"Taco"}

NutritionInputs == {[k \in {"calories"} |-> 300]}

AllergenInputs == {[k \in {"milk"} |-> TRUE]}

\* an optional field k of a request body or form
Opt(k, vals) == {EmptyObject} \cup {[x \in {k} |-> v] : v \in vals}

\* the categories of a counted family's store, created before the run
InitialCategoryIds == {"c1", "c2"}

\* category ids a caller names: a category of the store (which may have been
\* deleted since) or the empty string
CategoryIdInputs == InitialCategoryIds \cup {""}

\* The two mirrored families of index.js and of the services: the menu
\* collections (categories / items, payload field nutrition) and the allergen
\* collections (allergenCategories / allergenItems, payload field allergens).
\* payloads are the payload objects the run's requests may carry.
\* a category as POST /categories / createCategory leaves it
NewCategory(data) == data @@ [itemCount |-> 0]

\* the two categories a store starts with
InitialCategories ==
    [c \in InitialCategoryIds |->
        NewCategory(IF c = "c1" THEN [name |-> "Entrees", displayOrder |-> 1]
                                ELSE [name |-> "Sides", displayOrder |-> 2])]

NoIds == [cat |-> 0, doc |-> 0, row |-> 0]

\* the browser before anyone has signed in: no user in the auth SDK, none in the
\* React state, no notification under way, no sign-in running
NoUser == [user |-> "", domain |-> ""]
NoSession ==
    [restricted |-> TRUE, authUser |-> NoUser, currentUser |-> NoUser,
     notify |-> << >>, login |-> "idle", result |-> NoUser]

Menu == [cats |-> "categories", items |-> "items", payload |-> "nutrition",
         path |-> "/items", catPath |-> "/categories", payloads |-> {}]
Allergen == [cats |-> "allergenCategories", items |-> "allergenItems",
             payload |-> "allergens", path |-> "/allergen-items",
             catPath |-> "/allergen-categories", payloads |-> {}]
Families == {Menu, Allergen}

IsMenu(fam) == fam.items = "items"

ItemBodies(fam) ==
    {n @@ c @@ p : n \in Opt("name", Names),
                   c \in Opt("categoryId", CategoryIdInputs),
                   p \in Opt(fam.payload, fam.payloads)}

\* bodies of an update: the category and the payload, each given or not
UpdateBodies(fam) ==
    {c @@ p : c \in Opt("categoryId", CategoryIdInputs),
              p \in Opt(fam.payload, fam.payloads)}

\* rows of a bulk request and forms of the services: name and categoryId are
\* given, the payload may be absent
ItemForms(fam) ==
    {[name |-> n, categoryId |-> c] @@ p :
        n \in Names, c \in CategoryIdInputs, p \in Opt(fam.payload, fam.payloads)}

Done(op, status) == [op |-> op, status |-> status, data |-> EmptyObject]

Returned(op, status, data) == [op |-> op, status |-> status, data |-> data]

\* what a committed category change read (the old category) and wrote
Moved(from, to) == [from |-> from, to |-> to]

----------------------------------------------------------------------------
(* REST handlers of functions/index.js; each is written once for the menu  *)
(* family and once, identically, for the allergen family                   *)

\* the items a category delete looks for: where('categoryId', '==', id)
ItemsOfCategory(coll, id) == {i \in Ids(coll) : db[coll][i].categoryId = id}

\* DELETE /categories/:id, DELETE /allergen-categories/:id
DeleteCategory(fam) ==
    \E id \in CategoryIdInputs \ {""} :
        IF ItemsOfCategory(fam.items, id) # {}
        THEN /\ last' = Done("DELETE " \o fam.catPath, "400")
             /\ UNCHANGED <<db, nextId>>
        ELSE /\ db' = Commit(db, << DelW(fam.cats, id) >>)
             /\ last' = Done("DELETE " \o fam.catPath, "200")
             /\ UNCHANGED nextId

\* the document POST /items and POST /items/bulk store for one payload
StoredItem(fam, item) ==
    [name |-> item.name, categoryId |-> item.categoryId]
        @@ [k \in {fam.payload} |-> ObjOr(item, fam.payload, EmptyObject)]

PostItemWrites(fam, body, itemRef) ==
    << SetW(fam.items, itemRef, StoredItem(fam, body)),
       UpdW(fam.cats, body.categoryId, EmptyObject, 1) >>

\* POST /items, POST /allergen-items
PostItem(fam) ==
    \E body \in ItemBodies(fam) :
        /\ DocRoom(1)
        /\ IF Blank(body, "name") \/ Blank(body, "categoryId")
           THEN /\ last' = Done("POST " \o fam.path, "400")
                /\ UNCHANGED <<db, nextId>>
           ELSE LET ws == PostItemWrites(fam, body, NewDocId(1))
                IN  IF CommitOK(db, ws)
                    THEN /\ db' = Commit(db, ws)
                         /\ nextId' = [nextId EXCEPT !.doc = @ + 1]
                         /\ last' = Done("POST " \o fam.path, "201")
                    ELSE /\ last' = Done("POST " \o fam.path, "500")
                         /\ UNCHANGED <<db, nextId>>

\* mutant of ReassignWrites: the old category is not decremented
ReassignWritesNoDecrement(fam, id, updateData, oldCategoryId, categoryId) ==
    << UpdW(fam.items, id, updateData, 0),
       UpdW(fam.cats, categoryId, EmptyObject, 1) >>

\* the batch of an item update that changes the category
ReassignWrites(fam, id, updateData, oldCategoryId, categoryId) ==
    << UpdW(fam.items, id, updateData, 0),
       UpdW(fam.cats, oldCategoryId, EmptyObject, -1),
       UpdW(fam.cats, categoryId, EmptyObject, 1) >>

\* whether PUT /items/:id takes the category-change branch
PutItemChangesCategory(fam, id, body) ==
    /\ Has(body, "categoryId")
    /\ id \in Ids(fam.items)
    /\ db[fam.items][id].categoryId # body.categoryId

\* PUT /items/:id, PUT /allergen-items/:id
PutItem(fam) ==
    \E id \in Ids(fam.items) \cup {UnknownId}, body \in UpdateBodies(fam) :
        LET ws == IF PutItemChangesCategory(fam, id, body)
                  THEN ReassignWrites(fam, id, body,
                                      db[fam.items][id].categoryId, body.categoryId)
                  ELSE << UpdW(fam.items, id, body, 0) >>
        IN  /\ db' = Commit(db, ws)
            /\ last' = IF ~CommitOK(db, ws) THEN Done("PUT " \o fam.path, "500")
                       ELSE IF PutItemChangesCategory(fam, id, body)
                       THEN Returned("PUT " \o fam.path, "200",
                                     Moved(db[fam.items][id].categoryId, body.categoryId))
                       ELSE Done("PUT " \o fam.path, "200")
            /\ UNCHANGED nextId

\* the batch of an item delete
DeleteItemWrites(fam, id, categoryId) ==
    << DelW(fam.items, id), UpdW(fam.cats, categoryId, EmptyObject, -1) >>

\* DELETE /items/:id, DELETE /allergen-items/:id
DeleteItem(fam) ==
    \E id \in Ids(fam.items) \cup {UnknownId} :
        IF id \notin Ids(fam.items)
        THEN /\ last' = Done("DELETE " \o fam.path, "404")
             /\ UNCHANGED <<db, nextId>>
        ELSE LET ws == DeleteItemWrites(fam, id, db[fam.items][id].categoryId)
             IN  /\ db' = Commit(db, ws)
                 /\ last' = Done("DELETE " \o fam.path,
                                 IF CommitOK(db, ws) THEN "200" ELSE "500")
                 /\ UNCHANGED nextId

\* GET /items/:id, GET /allergen-items/:id: the stored document as it is
GetItem(fam) ==
    \E id \in Ids(fam.items) \cup {UnknownId} :
        /\ last' = IF id \in Ids(fam.items)
                   THEN Returned("GET " \o fam.path, "200",
                                 Spread([k \in {"id"} |-> id], db[fam.items][id]))
                   ELSE Done("GET " \o fam.path, "404")
        /\ UNCHANGED <<db, nextId>>

----------------------------------------------------------------------------
(* Bulk create: item batches first, one count batch at the end *)

\* items.slice(i, i + batchSize) for the k-th batch (k = 1, 2, ...)
Chunk(rows, size, k) ==
    SubSeq(rows, (k - 1) * size + 1,
           IF k * size < Len(rows) THEN k * size ELSE Len(rows))

NumChunks(rows, size) == (Len(rows) + size - 1) \div size

\* categoryUpdates: category id -> number of rows naming it
CategoryUpdates(rows) ==
    [c \in {rows[i].categoryId : i \in 1..Len(rows)} |->
        Cardinality({i \in 1..Len(rows) : rows[i].categoryId = c})]

RECURSIVE SetToSeq(_)
SetToSeq(S) ==
    IF S = {} THEN <<>> ELSE LET x == CHOOSE y \in S : TRUE IN <<x>> \o SetToSeq(S \ {x})

\* the final count batch: one increment per category named
CountBatch(cats, rows) ==
    LET cu == CategoryUpdates(rows)
        order == SetToSeq(DOMAIN cu)
    IN  [i \in 1..Len(order) |-> UpdW(cats, order[i], EmptyObject, cu[order[i]])]

\* the k-th item batch of POST /items/bulk: set() of a fresh id per row
RestItemBatch(fam, rows, k) ==
    LET chunk == Chunk(rows, RestBatchSize, k)
    IN  [j \in 1..Len(chunk) |->
            SetW(fam.items, NewDocId((k - 1) * RestBatchSize + j),
                 StoredItem(fam, chunk[j]))]

RECURSIVE RestCommitChunks(_, _, _, _)
RestCommitChunks(d, fam, rows, k) ==
    IF k > NumChunks(rows, RestBatchSize) THEN d
    ELSE RestCommitChunks(Commit(d, RestItemBatch(fam, rows, k)), fam, rows, k + 1)

\* POST /items/bulk, POST /allergen-items/bulk
PostItemsBulk(fam) ==
    \/ /\ last' = Returned("POST " \o fam.path \o "/bulk", "400", [items |-> "not an array"])
       /\ UNCHANGED <<db, nextId>>
    \/ \E n \in {k \in 0..MaxRows : DocRoom(k)} : \E rows \in [1..n -> ItemForms(fam)] :
        IF rows = <<>>
        THEN /\ last' = Done("POST " \o fam.path \o "/bulk", "400")
             /\ UNCHANGED <<db, nextId>>
        ELSE LET afterItems == RestCommitChunks(db, fam, rows, 1)
                 countBatch == CountBatch(fam.cats, rows)
             IN  /\ db' = Commit(afterItems, countBatch)
                 /\ nextId' = [nextId EXCEPT !.doc = @ + Len(rows)]
                 /\ last' = Done("POST " \o fam.path \o "/bulk",
                                 IF CommitOK(afterItems, countBatch) THEN "201" ELSE "500")

----------------------------------------------------------------------------
(* Services with counted categories: the allergen service of               *)
(* src/services/allergens.ts and, line for line the same on categories /   *)
(* items, the legacy service in the second half of src/services/firestore.ts *)

\* createAllergenItem / createItem (legacy): the form is stored as given
SvcCreateItemWrites(fam, data, itemRef) ==
    << SetW(fam.items, itemRef, data),
       UpdW(fam.cats, data.categoryId, EmptyObject, 1) >>

SvcCreateItem(fam) ==
    \E data \in ItemForms(fam) :
        /\ DocRoom(1)
        /\ LET ws == SvcCreateItemWrites(fam, data, NewDocId(1))
           IN  IF CommitOK(db, ws)
               THEN /\ db' = Commit(db, ws)
                    /\ nextId' = [nextId EXCEPT !.doc = @ + 1]
                    /\ last' = Done("createItem", "ok")
               ELSE /\ last' = Done("createItem", "throw")
                    /\ UNCHANGED <<db, nextId>>

\* whether updateAllergenItem / updateItem (legacy) takes the category-change branch
SvcUpdateChangesCategory(fam, id, data) ==
    /\ ~Blank(data, "categoryId")
    /\ id \in Ids(fam.items)
    /\ StrOr(db[fam.items][id], "categoryId", "") # data.categoryId

\* updateAllergenItem / updateItem (legacy)
SvcUpdateItem(fam) ==
    \E id \in Ids(fam.items) \cup {UnknownId}, data \in UpdateBodies(fam) :
        LET ws == IF SvcUpdateChangesCategory(fam, id, data)
                  THEN ReassignWrites(fam, id, data,
                                      StrOr(db[fam.items][id], "categoryId", ""),
                                      data.categoryId)
                  ELSE << UpdW(fam.items, id, data, 0) >>
        IN  /\ db' = Commit(db, ws)
            /\ last' = IF ~CommitOK(db, ws) THEN Done("updateItem", "throw")
                       ELSE IF SvcUpdateChangesCategory(fam, id, data)
                       THEN Returned("updateItem", "ok",
                                     Moved(StrOr(db[fam.items][id], "categoryId", ""),
                                           data.categoryId))
                       ELSE Done("updateItem", "ok")
            /\ UNCHANGED nextId

\* deleteAllergenItem / deleteItem (legacy)
SvcDeleteItem(fam) ==
    \E id \in Ids(fam.items) \cup {UnknownId} :
        IF id \notin Ids(fam.items)
        THEN /\ last' = Done("deleteItem", "not found")
             /\ UNCHANGED <<db, nextId>>
        ELSE LET ws == DeleteItemWrites(fam, id,
                                        StrOr(db[fam.items][id], "categoryId", ""))
             IN  /\ db' = Commit(db, ws)
                 /\ last' = Done("deleteItem", IF CommitOK(db, ws) THEN "ok" ELSE "throw")
                 /\ UNCHANGED nextId

\* the k-th item batch of bulkCreateAllergenItems / bulkCreateItems (legacy)
SvcItemBatch(fam, rows, k) ==
    LET chunk == Chunk(rows, RestBatchSize, k)
    IN  [j \in 1..Len(chunk) |->
            SetW(fam.items, NewDocId((k - 1) * RestBatchSize + j), chunk[j])]

RECURSIVE SvcCommitChunks(_, _, _, _)
SvcCommitChunks(d, fam, rows, k) ==
    IF k > NumChunks(rows, RestBatchSize) THEN d
    ELSE SvcCommitChunks(Commit(d, SvcItemBatch(fam, rows, k)), fam, rows, k + 1)

\* bulkCreateAllergenItems / bulkCreateItems (legacy)
SvcBulkCreate(fam) ==
    \E n \in {k \in 0..MaxRows : DocRoom(k)} : \E rows \in [1..n -> ItemForms(fam)] :
        LET afterItems == SvcCommitChunks(db, fam, rows, 1)
            countBatch == CountBatch(fam.cats, rows)
        IN  /\ db' = Commit(afterItems, countBatch)
            /\ nextId' = [nextId EXCEPT !.doc = @ + Len(rows)]
            /\ last' = Done("bulkCreateItems",
                            IF CommitOK(afterItems, countBatch) THEN "ok" ELSE "throw")

\* deleteAllergenCategory / deleteCategory (legacy)
SvcDeleteCategory(fam) ==
    \E id \in CategoryIdInputs \ {""} :
        IF ItemsOfCategory(fam.items, id) # {}
        THEN /\ last' = Done("deleteCategory", "throw")
             /\ UNCHANGED <<db, nextId>>
        ELSE /\ db' = Commit(db, << DelW(fam.cats, id) >>)
             /\ last' = Done("deleteCategory", "ok")
             /\ UNCHANGED nextId

----------------------------------------------------------------------------
(* Normalized service: first half of src/services/firestore.ts *)

\* deleteCategory: blocked by assignment rows of item_categories only
NormDeleteCategory ==
    \E id \in Ids("categories") \cup InitialCategoryIds :
        IF ItemsOfCategory("item_categories", id) # {}
        THEN /\ last' = Done("deleteCategory (normalized)", "throw")
             /\ UNCHANGED <<db, nextId>>
        ELSE /\ db' = Commit(db, << DelW("categories", id) >>)
             /\ last' = Done("deleteCategory (normalized)", "ok")
             /\ UNCHANGED nextId

\* String.prototype.toLowerCase, over the strings of the model
ToLowerCase(s) ==
    CASE s = "Taco" -> "taco"
      [] s = "Entrees" -> "entrees"
      [] s = "Sides" -> "sides"
      [] s = "ENTREES" -> "entrees"
      [] s = "Salsas" -> "salsas"
      [] OTHER -> s

\* generateSlug: lower case, runs of other characters turned into '-'; the names of
\* the model are made of letters only
generateSlug(name) == ToLowerCase(name)

\* JSON.stringify of a nutrition object whose keys were written in the order of
\* the template: the key/value pairs that are present, in that order
Stringify(o) ==
    LET pairs == [i \in 1..Len(NutritionKeyOrder) |->
                    << NutritionKeyOrder[i],
                       IF Has(o, NutritionKeyOrder[i]) THEN o[NutritionKeyOrder[i]] ELSE 0 >>]
        present(p) == Has(o, p[1])
    IN  SelectSeq(pairs, present)

\* the dedup key of bulkCreateItems: `${name.toLowerCase()}|${JSON.stringify(nutrition)}`
Fingerprint(item) ==
    << ToLowerCase(StrOr(item, "name", "")),
       Stringify(ObjOr(item, "nutrition", EmptyObject)) >>

RowIdPool == << "a1", "a2", "a3", "a4", "a5", "a6", "a7", "a8", "a9" >>
NewRowId(n) == RowIdPool[nextId.row + n]
RowRoom(n) == nextId.row + n <= MaxAssignments /\ nextId.row + n <= Len(RowIdPool)

AssignmentsOf(d, itemId) ==
    {a \in DOMAIN d["item_categories"] : d["item_categories"][a].itemId = itemId}

AssignmentRow(itemId, categoryId) == [itemId |-> itemId, categoryId |-> categoryId]

NormNames == {"Taco", "taco"}
NormItemForms ==
    {[name |-> n, categoryId |-> c] @@ p :
        n \in NormNames, c \in Ids("categories"),
        p \in Opt("nutrition", NutritionInputs)}
NormUpdateBodies ==
    Opt("categoryId", Ids("categories")) \cup Opt("nutrition", NutritionInputs)

\* createItem: base item and assignment row in one batch; no count is written
NormCreateItemWrites(data, baseRef, assignmentRef) ==
    << SetW("base_items", baseRef,
            [name |-> data.name,
             nutrition |-> ObjOr(data, "nutrition", emptyNutrition),
             allergens |-> ObjOr(data, "allergens", emptyAllergenFlags)]),
       SetW("item_categories", assignmentRef, AssignmentRow(baseRef, data.categoryId)) >>

NormCreateItem ==
    /\ DocRoom(1) /\ RowRoom(1)
    /\ \E data \in NormItemForms :
          /\ db' = Commit(db, NormCreateItemWrites(data, NewDocId(1), NewRowId(1)))
          /\ nextId' = [nextId EXCEPT !.doc = @ + 1, !.row = @ + 1]
          /\ last' = Returned("createItem (normalized)", "ok",
                              [id |-> NewDocId(1), categoryId |-> data.categoryId])

\* the fields updateItem copies into `updates`
NormUpdates(data) == [k \in DOMAIN data \cap {"name", "nutrition", "allergens"} |-> data[k]]

\* updateItem: the category is changed by replacing one assignment row. The row
\* replaced is the first of the query result, which the store orders by row id;
\* row ids are random, so any of the candidate rows can be that one.
NormUpdateItem ==
    \E id \in Ids("base_items") \cup {UnknownId}, data \in NormUpdateBodies,
       fromCategoryId \in Ids("categories") \cup {""} :
        LET assignments == AssignmentsOf(db, id)
            candidates == IF fromCategoryId # ""
                          THEN {a \in assignments :
                                   db["item_categories"][a].categoryId = fromCategoryId}
                          ELSE assignments
            plain == << UpdW("base_items", id, NormUpdates(data), 0) >>
        IN  \E existing \in (IF candidates = {} THEN {UnknownId} ELSE candidates) :
              IF /\ Has(data, "categoryId")
                 /\ \/ existing = UnknownId
                    \/ db["item_categories"][existing].categoryId # data.categoryId
              THEN LET ws == plain
                             \o (IF existing = UnknownId THEN << >>
                                 ELSE << DelW("item_categories", existing) >>)
                             \o << SetW("item_categories", NewRowId(1),
                                        AssignmentRow(id, data.categoryId)) >>
                   IN  /\ RowRoom(1)
                       /\ db' = Commit(db, ws)
                       /\ nextId' = [nextId EXCEPT !.row = @ + 1]
                       /\ last' = Done("updateItem (normalized)",
                                       IF CommitOK(db, ws) THEN "ok" ELSE "throw")
              ELSE /\ db' = Commit(db, plain)
                   /\ last' = Done("updateItem (normalized)",
                                   IF CommitOK(db, plain) THEN "ok" ELSE "throw")
                   /\ UNCHANGED nextId

\* deleteItem: the base item and all of its assignment rows; no count is written
NormDeleteItemWrites(id) ==
    << DelW("base_items", id) >>
    \o [i \in 1..Cardinality(AssignmentsOf(db, id)) |->
           DelW("item_categories", SetToSeq(AssignmentsOf(db, id))[i])]

NormDeleteItem ==
    \E id \in Ids("base_items") \cup {UnknownId} :
        /\ db' = Commit(db, NormDeleteItemWrites(id))
        /\ last' = Returned("deleteItem (normalized)", "ok",
                            [id |-> id])
        /\ UNCHANGED nextId

\* the base item bulkCreateItems stores for a row
BulkBaseItem(item) ==
    [name |-> item.name,
     nutrition |-> Spread(emptyNutrition, ObjOr(item, "nutrition", EmptyObject)),
     allergens |-> ObjOr(item, "allergens", emptyAllergenFlags)]

\* one bulkCreateItems call in progress: the store, the fingerprints seen by this
\* call, the open batch, and the ids handed out so far
BulkStart(d, doc, row) == [d |-> d, seen |-> << >>, batch |-> << >>, doc |-> doc, row |-> row]

\* the loop body of bulkCreateItems for one row
BulkRow(st, item) ==
    LET key == Fingerprint(item)
        assignmentRef == RowIdPool[st.row + 1]
        baseRef == DocIdPool[st.doc + 1]
    IN  IF key \in DOMAIN st.seen
        THEN [st EXCEPT !.batch = Append(@, SetW("item_categories", assignmentRef,
                                      AssignmentRow(st.seen[key], item.categoryId))),
                        !.row = @ + 1]
        ELSE [st EXCEPT !.batch = @ \o << SetW("base_items", baseRef, BulkBaseItem(item)),
                                          SetW("item_categories", assignmentRef,
                                               AssignmentRow(baseRef, item.categoryId)) >>,
                        !.seen = Put(@, key, baseRef),
                        !.doc = @ + 1,
                        !.row = @ + 1]

\* rows i.. of the input: a batch is committed after every NormBatchSize rows and
\* after the last row
RECURSIVE bulkCreateItemsFrom(_, _, _)
bulkCreateItemsFrom(st, items, i) ==
    IF i > Len(items) THEN st
    ELSE LET filled == BulkRow(st, items[i])
             next == IF i % NormBatchSize = 0 \/ i = Len(items)
                     THEN [filled EXCEPT !.d = Commit(@, filled.batch), !.batch = << >>]
                     ELSE filled
         IN  bulkCreateItemsFrom(next, items, i + 1)

\* bulkCreateItems over store d: the store and the id counters it leaves
bulkCreateItems(d, doc, row, items) == bulkCreateItemsFrom(BulkStart(d, doc, row), items, 1)

NormBulkCreateItems ==
    \E n \in {k \in 0..MaxRows : RowRoom(k)} :
      \E items \in [1..n -> NormItemForms] :
        LET st == bulkCreateItems(db, nextId.doc, nextId.row, items)
        IN  /\ st.doc <= MaxDocs
            /\ db' = st.d
            /\ nextId' = [nextId EXCEPT !.doc = st.doc, !.row = st.row]
            /\ last' = Done("bulkCreateItems (normalized)", "ok")

----------------------------------------------------------------------------
(* The admin Import page: nutrition import *)

CategoryNames == {"Entrees", "Sides"}
ImportRows ==
    {[name |-> n, category |-> c] @@ p :
        n \in NormNames, c \in CategoryNames, p \in Opt("nutrition", NutritionInputs)}

\* [...new Set(seq)]: the distinct elements in order of first occurrence
RECURSIVE Distinct(_)
Distinct(seq) ==
    IF seq = << >> THEN << >>
    ELSE LET front == Distinct(SubSeq(seq, 1, Len(seq) - 1))
             x == seq[Len(seq)]
         IN  IF \E i \in 1..Len(front) : front[i] = x THEN front ELSE Append(front, x)

\* the text of an uploaded file, by what JSON.parse makes of it: nothing
\* (kind "unparseable"), an array of rows, an object, or a number
Null == [null |-> TRUE]
NutritionFiles(n) ==
    {[kind |-> "array", value |-> data] : data \in [1..n -> ImportRows]}
    \cup (IF n # 1 THEN {}
          ELSE {[kind |-> "object", value |-> [items |-> data]] : data \in [1..n -> ImportRows]})
    \cup (IF n # 0 THEN {}
          ELSE {[kind |-> "unparseable", value |-> "{"], [kind |-> "number", value |-> 7],
                [kind |-> "object", value |-> EmptyObject],
                [kind |-> "object", value |-> [categories |-> << "Salsas" >>]]})

\* mutant of parseNutritionJson: an object without items is taken as an empty list
parseNutritionJsonLenient(jsonStr) ==
    IF jsonStr.kind = "array"
    THEN [categories |-> Distinct([i \in 1..Len(jsonStr.value) |-> jsonStr.value[i].category]),
          items |-> jsonStr.value]
    ELSE IF jsonStr.kind = "object"
    THEN [categories |-> ObjOr(jsonStr.value, "categories", << >>),
          items |-> ObjOr(jsonStr.value, "items", << >>)]
    ELSE Null

\* parseNutritionJson: the preview of an array of rows or of an object with items,
\* null (after an error message) for anything else
parseNutritionJson(jsonStr) ==
    LET data == jsonStr.value
        derived(items) == Distinct([i \in 1..Len(items) |-> items[i].category])
    IN  IF jsonStr.kind = "array"
        THEN [categories |-> derived(data), items |-> data]
        ELSE IF jsonStr.kind = "object" /\ Has(data, "items")
        THEN [categories |-> ObjOr(data, "categories", derived(data.items)),
              items |-> data.items]
        ELSE Null

\* existingCategoryMap.get(lowerName): of the stored categories with that lower-cased
\* name, the last in display order
ExistingCategory(d, lowerName) ==
    LET ids == {c \in DOMAIN d["categories"] :
                   ToLowerCase(d["categories"][c].name) = lowerName}
    IN  IF ids = {} THEN ""
        ELSE CHOOSE c \in ids : \A o \in ids :
                d["categories"][o].displayOrder <= d["categories"][c].displayOrder

\* the category loop of handleNutritionImport from the i-th name on; d0 is the
\* store as getCategories read it before the loop
RECURSIVE ResolveCategories(_, _, _, _)
ResolveCategories(st, d0, names, i) ==
    IF i > Len(names) THEN st
    ELSE LET categoryName == names[i]
             existing == ExistingCategory(d0, ToLowerCase(categoryName))
             id == CatIdPool[st.cat + 1]
             data == [name |-> categoryName, slug |-> generateSlug(categoryName),
                      displayOrder |-> Cardinality(DOMAIN d0["categories"]) + st.created + 1]
         IN  IF existing # ""
             THEN ResolveCategories(
                      [st EXCEPT !.categoryIdMap = Put(@, categoryName, existing)],
                      d0, names, i + 1)
             ELSE ResolveCategories(
                      [st EXCEPT !.d = Commit(@, << SetW("categories", id, NewCategory(data)) >>),
                                 !.categoryIdMap = Put(@, categoryName, id),
                                 !.cat = @ + 1,
                                 !.created = @ + 1],
                      d0, names, i + 1)

\* itemsToCreate of handleNutritionImport
ItemsToCreate(items, categoryIdMap) ==
    [i \in 1..Len(items) |->
        [name |-> items[i].name,
         categoryId |-> IF items[i].category \in DOMAIN categoryIdMap
                        THEN categoryIdMap[items[i].category] ELSE "",
         nutrition |-> Spread(emptyNutrition, ObjOr(items[i], "nutrition", EmptyObject))]]

\* the chunk loop of handleNutritionImport: one bulkCreateItems call per chunk
RECURSIVE ImportChunks(_, _, _)
ImportChunks(st, items, k) ==
    IF k > NumChunks(items, ImportBatchSize) THEN st
    ELSE ImportChunks(bulkCreateItems(st.d, st.doc, st.row, Chunk(items, ImportBatchSize, k)),
                      items, k + 1)

\* a file is chosen (parsed into the preview) and Import is pressed
handleNutritionImport ==
    \E n \in {k \in 0..MaxRows : RowRoom(k)} :
      \E jsonStr \in NutritionFiles(n) :
        LET nutritionPreview == parseNutritionJson(jsonStr)
            resolved == ResolveCategories(
                            [d |-> db, categoryIdMap |-> << >>, cat |-> nextId.cat, created |-> 0],
                            db, nutritionPreview.categories, 1)
            st == ImportChunks(BulkStart(resolved.d, nextId.doc, nextId.row),
                               ItemsToCreate(nutritionPreview.items, resolved.categoryIdMap), 1)
        IN  IF nutritionPreview = Null
            THEN /\ last' = Returned("handleNutritionImport", "return", [file |-> jsonStr])
                 /\ UNCHANGED <<db, nextId>>
            ELSE /\ nextId.cat + Len(nutritionPreview.categories) <= MaxNewCategories
                 /\ st.doc <= MaxDocs
                 /\ db' = st.d
                 /\ nextId' = [cat |-> resolved.cat, doc |-> st.doc, row |-> st.row]
                 /\ last' = Returned("handleNutritionImport", "ok",
                                     [items |-> nutritionPreview.items, file |-> jsonStr])

----------------------------------------------------------------------------
(* Specification of the counted families: REST handlers and services *)

Init ==
    /\ family \in Families
    /\ db = [EmptyDb EXCEPT ![family.cats] = InitialCategories]
    /\ nextId = NoIds
    /\ last = Done("init", "")
    /\ pending = {}
    /\ session = NoSession

Next ==
    \/ DeleteCategory(family) /\ Quiet
    \/ PostItem(family) /\ Quiet
    \/ PutItem(family) /\ Quiet
    \/ DeleteItem(family) /\ Quiet
    \/ PostItemsBulk(family) /\ Quiet
    \/ SvcCreateItem(family) /\ Quiet
    \/ SvcUpdateItem(family) /\ Quiet
    \/ SvcDeleteItem(family) /\ Quiet
    \/ SvcBulkCreate(family) /\ Quiet
    \/ SvcDeleteCategory(family) /\ Quiet
    \/ IsMenu(family) /\ NormDeleteCategory /\ Quiet

Spec == Init /\ [][Next]_vars

----------------------------------------------------------------------------
(* Category counts of the counted families *)

\* the stored itemCount of category c
ItemCount(d, fam, c) == d[fam.cats][c].itemCount

\* the number of items whose categoryId is c
Tally(d, fam, c) ==
    Cardinality({i \in DOMAIN d[fam.items] : d[fam.items][i].categoryId = c})

Consistent(d, fam) ==
    \A c \in DOMAIN d[fam.cats] : ItemCount(d, fam, c) = Tally(d, fam, c)

\* itemCount of every category but those of `except` is as it was
CountsKeptBut(except) ==
    \A c \in (DOMAIN db[family.cats] \cap DOMAIN db'[family.cats]) \ except :
        ItemCount(db', family, c) = ItemCount(db, family, c)

UpdateOps == {"PUT /items", "PUT /allergen-items", "updateItem"}
BulkOps == {"POST /items/bulk", "POST /allergen-items/bulk", "bulkCreateItems"}
DeleteCategoryOps ==
    {"DELETE /categories", "DELETE /allergen-categories", "deleteCategory",
     "deleteCategory (normalized)"}
Failed == {"400", "404", "500", "throw", "not found"}

\* the items whose categoryId this step changed to an existing category
Reassigned ==
    {i \in DOMAIN db[family.items] \cap DOMAIN db'[family.items] :
        /\ db'[family.items][i].categoryId # db[family.items][i].categoryId
        /\ db'[family.items][i].categoryId \in DOMAIN db[family.cats]}

\* C3: an update (PUT /items/:id, PUT /allergen-items/:id, the legacy updateItem,
\* updateAllergenItem) that moves an item from category A to another category B
\* lowers A.itemCount by one and raises B.itemCount by one in the step that
\* rewrites the item, and changes no other count; an update that leaves every
\* item's category as it was (the requested category is the current one, or
\* none is given, or the batch fails) writes no itemCount.
C3_ReassignMovesCount ==
    [][ last'.op \in UpdateOps =>
          /\ \A i \in Reassigned :
                LET A == db[family.items][i].categoryId
                    B == db'[family.items][i].categoryId
                IN  /\ A \in DOMAIN db[family.cats]
                    /\ ItemCount(db', family, A) = ItemCount(db, family, A) - 1
                    /\ ItemCount(db', family, B) = ItemCount(db, family, B) + 1
                    /\ CountsKeptBut({A, B})
                    /\ last'.data = Moved(A, B)
          /\ (\A i \in DOMAIN db[family.items] :
                 db'[family.items][i].categoryId = db[family.items][i].categoryId)
             => db'[family.cats] = db[family.cats]
      ]_vars

\* C3 witness: an update has just moved an item from c1 to c2, and the counts
\* say so: c2 counts the item and c1 no longer does
C3_Witness ==
    /\ last.op \in UpdateOps
    /\ last.data = Moved("c1", "c2")
    /\ \E i \in Ids(family.items) : db[family.items][i].categoryId = "c2"
    /\ InitialCategoryIds \subseteq Ids(family.cats)
    /\ ItemCount(db, family, "c1") = 0
    /\ ItemCount(db, family, "c2") = 1

\* a bulk create whose final count batch failed
FailedBulk == last'.op \in BulkOps /\ last'.status \in Failed

\* a service update given the empty string as categoryId: it is stored as it is
BlankCategoryUpdate ==
    /\ last'.op = "updateItem"
    /\ \E i \in DOMAIN db[family.items] \cap DOMAIN db'[family.items] :
          /\ db'[family.items][i].categoryId = ""
          /\ db[family.items][i].categoryId # ""

\* C4, for the update operations: from a store whose counts are exact, a completed
\* item update, successful or failed, with or without a category change, leaves
\* every category's stored itemCount equal to the number of items whose
\* categoryId is that category
C4_UpdateKeepsCountsExact ==
    [][ (Consistent(db, family) /\ last'.op \in UpdateOps)
            => Consistent(db', family) ]_vars

\* What does hold: from a store whose counts are exact, every completed item
\* operation leaves the counts exact, whether it succeeds or fails, except a bulk
\* create whose count batch fails (the items stay, uncounted) and a service update
\* that is given the empty string as categoryId
CountsStayExact ==
    [][ (Consistent(db, family) /\ ~FailedBulk /\ ~BlankCategoryUpdate)
            => Consistent(db', family) ]_vars

\* whether an item (legacy schema) or an assignment row (normalized schema)
\* references category c
Referenced(d, fam, c) ==
    \/ \E i \in DOMAIN d[fam.items] : d[fam.items][i].categoryId = c
    \/ IsMenu(fam) /\ \E a \in DOMAIN d["item_categories"] :
                          d["item_categories"][a].categoryId = c

\* C5: deleting a category that an item or an assignment row references fails and
\* writes nothing, whichever schema the store holds: no step removes a category
\* that is referenced
C5_ReferencedCategoryStays ==
    [][ \A c \in DOMAIN db[family.cats] :
            Referenced(db, family, c) => c \in DOMAIN db'[family.cats] ]_vars

----------------------------------------------------------------------------
(* Specification of the normalized service and the nutrition import *)

InitNorm ==
    /\ family = Menu
    /\ db = EmptyDb
    /\ nextId = NoIds
    /\ last = Done("init", "")
    /\ pending = {}
    /\ session = NoSession

NextNorm ==
    \/ NormCreateItem /\ Quiet
    \/ NormUpdateItem /\ Quiet
    \/ NormDeleteItem /\ Quiet
    \/ NormBulkCreateItems /\ Quiet
    \/ handleNutritionImport /\ Quiet
    \/ NormDeleteCategory /\ Quiet

SpecNorm == InitNorm /\ [][NextNorm]_vars

----------------------------------------------------------------------------
(* Counts and assignment rows of the normalized store *)

\* the itemCount stored in category c of store d; 0 for a category not there yet
StoredCount(d, c) ==
    IF c \in DOMAIN d["categories"] THEN d["categories"][c].itemCount ELSE 0

\* the assignment rows this step created for category c
NewRowsFor(c) ==
    {a \in DOMAIN db'["item_categories"] \ DOMAIN db["item_categories"] :
        db'["item_categories"][a].categoryId = c}

\* the base items this step created
NewBaseItems == DOMAIN db'["base_items"] \ DOMAIN db["base_items"]

\* C1: creating one item in an existing category C raises C's stored itemCount
\* from N to N+1 in the step that writes the item and its assignment row; here
\* for the createItem of the normalized service
C1_CreateRaisesStoredCount ==
    [][ ( /\ last'.op = "createItem (normalized)"
          /\ last'.status = "ok"
          /\ last'.data.categoryId \in DOMAIN db["categories"] )
        => StoredCount(db', last'.data.categoryId)
             = StoredCount(db, last'.data.categoryId) + 1 ]_vars

\* C2: deleting one existing item lowers the stored itemCount of the item's
\* category from N to N-1 in the step that deletes the item and its assignment
\* rows; here for the deleteItem of the normalized service and an item that has
\* one assignment row
C2_DeleteLowersStoredCount ==
    [][ ( /\ last'.op = "deleteItem (normalized)"
          /\ last'.data.id \in DOMAIN db["base_items"] )
        => \A a \in AssignmentsOf(db, last'.data.id) :
              LET c == db["item_categories"][a].categoryId
              IN  (AssignmentsOf(db, last'.data.id) = {a} /\ c \in DOMAIN db["categories"])
                  => StoredCount(db', c) = StoredCount(db, c) - 1 ]_vars

\* the dedup key of an import row, whose nutrition the import merges over the template
RowFingerprint(row) ==
    Fingerprint([name |-> row.name,
                 nutrition |-> Spread(emptyNutrition, ObjOr(row, "nutrition", EmptyObject))])

\* C6: an import with two rows of the same lower-cased name and the same nutrition
\* but different categories, wherever they sit in the input, creates exactly one
\* base item for them and an assignment row per category, both pointing at it
C6_ImportCreatesOneBaseItem ==
    [][ last'.op = "handleNutritionImport" /\ last'.status = "ok" =>
          \A i, j \in 1..Len(last'.data.items) :
              LET ri == last'.data.items[i]
                  rj == last'.data.items[j]
                  made == {b \in NewBaseItems :
                              Fingerprint(db'["base_items"][b]) = RowFingerprint(ri)}
              IN  ( /\ i < j
                    /\ RowFingerprint(ri) = RowFingerprint(rj)
                    /\ ri.category # rj.category )
                  => /\ Cardinality(made) = 1
                     /\ \A r \in {ri, rj} :
                          \E a \in DOMAIN db'["item_categories"] \ DOMAIN db["item_categories"] :
                            /\ db'["item_categories"][a].itemId \in made
                            /\ db'["item_categories"][a].categoryId \in DOMAIN db'["categories"]
                            /\ db'["categories"][db'["item_categories"][a].categoryId].name
                                  = r.category
      ]_vars

\* C7: after a bulk import or a bulk create has completed successfully, each
\* category's stored itemCount has grown by the number of rows the operation
\* created for that category (a new category starts from 0)
C7_BulkRaisesStoredCounts ==
    [][ ( /\ last'.op \in {"handleNutritionImport", "bulkCreateItems (normalized)"}
          /\ last'.status = "ok" )
        => \A c \in DOMAIN db'["categories"] :
              StoredCount(db', c) = StoredCount(db, c) + Cardinality(NewRowsFor(c)) ]_vars

\* C8: no two assignment rows of the normalized store have the same
\* (itemId, categoryId) pair
C8_AssignmentPairsUnique ==
    \A a, b \in DOMAIN db["item_categories"] :
        a # b => \/ db["item_categories"][a].itemId # db["item_categories"][b].itemId
                 \/ db["item_categories"][a].categoryId # db["item_categories"][b].categoryId

----------------------------------------------------------------------------
(* Reading items: extraction of nutrition and allergen data *)

\* the fields extractNutrition lists, and the fields extractAllergens lists
ExtractNutritionFields ==
    {"calories", "caloriesFromFat", "totalFat", "saturatedFat", "transFat",
     "polyunsaturatedFat", "monounsaturatedFat", "cholesterol", "sodium", "potassium",
     "totalCarbs", "dietaryFiber", "totalSugars", "addedSugars", "protein"}
ExtractAllergenFields ==
    {"egg", "fish", "milk", "peanuts", "sesame", "shellfish", "soy", "treeNuts",
     "wheat", "gluten", "vegan", "vegetarian"}

\* (data.k as number) || 0
Or0(data, k) == IF Has(data, k) /\ data[k] # 0 THEN data[k] ELSE 0
\* (data.k as boolean) || false
OrFalse(data, k) == IF Has(data, k) /\ data[k] # FALSE THEN data[k] ELSE FALSE

\* mutant of extractNutrition: the stored fields, without the defaults
extractNutritionNoDefaults(data) ==
    [k \in ExtractNutritionFields \cap DOMAIN data |-> data[k]]

extractNutrition(data) == [k \in ExtractNutritionFields |-> Or0(data, k)]

extractAllergens(data) ==
    IF Has(data, "allergens")
    THEN Spread(emptyAllergenFlags, data.allergens)
    ELSE [k \in ExtractAllergenFields |-> OrFalse(data, k)]

hasNestedNutrition(data) == Has(data, "nutrition")

\* the nutrition of a stored item: nested object over the template, or flat fields
NutritionOf(data) ==
    IF hasNestedNutrition(data)
    THEN Spread(emptyNutrition, data.nutrition)
    ELSE extractNutrition(data)

legacyDocToMenuItem(docId, data) ==
    [id |-> docId,
     name |-> StrOr(data, "name", ""),
     categoryId |-> StrOr(data, "categoryId", ""),
     categoryName |-> StrOr(data, "categoryName", ""),
     nutrition |-> NutritionOf(data),
     allergens |-> extractAllergens(data)]

\* getBaseItem of a base item that exists
getBaseItem(d, id) ==
    [id |-> id,
     name |-> StrOr(d["base_items"][id], "name", ""),
     nutrition |-> NutritionOf(d["base_items"][id]),
     allergens |-> extractAllergens(d["base_items"][id])]

baseItemToMenuItem(base, categoryId, categoryName) ==
    [id |-> base.id, name |-> base.name,
     categoryId |-> categoryId, categoryName |-> categoryName,
     nutrition |-> base.nutrition, allergens |-> base.allergens]

\* getItem of the normalized service: a base item with the category of its first
\* assignment row (any of its rows, as row ids are random), else a legacy item
NormGetItem ==
    \E id \in Ids("base_items") \cup Ids("items") \cup {UnknownId} :
        /\ UNCHANGED <<db, nextId>>
        /\ IF id \in Ids("base_items")
           THEN \E categoryDoc \in (IF AssignmentsOf(db, id) = {} THEN {UnknownId}
                                    ELSE AssignmentsOf(db, id)) :
                  LET categoryId == IF categoryDoc = UnknownId THEN ""
                                    ELSE db["item_categories"][categoryDoc].categoryId
                      categoryName == IF categoryId \in Ids("categories")
                                      THEN db["categories"][categoryId].name ELSE ""
                  IN  last' = Returned("getItem", "ok",
                                  baseItemToMenuItem(getBaseItem(db, id), categoryId, categoryName))
           ELSE IF id \in Ids("items")
           THEN last' = Returned("getItem", "ok", legacyDocToMenuItem(id, db["items"][id]))
           ELSE last' = Done("getItem", "null")

\* extractAllergens of services/allergens.ts
extractAllergenFlags(data) ==
    IF Has(data, "allergens")
    THEN Spread(emptyAllergenFlags, data.allergens)
    ELSE [k \in ExtractAllergenFields |-> OrFalse(data, k)]

docToAllergenItem(docId, data) ==
    [id |-> docId,
     name |-> StrOr(data, "name", ""),
     categoryId |-> StrOr(data, "categoryId", ""),
     categoryName |-> StrOr(data, "categoryName", ""),
     allergens |-> extractAllergenFlags(data)]

getAllergenItem ==
    \E id \in Ids("allergenItems") \cup {UnknownId} :
        /\ UNCHANGED <<db, nextId>>
        /\ last' = IF id \in Ids("allergenItems")
                   THEN Returned("getAllergenItem", "ok",
                                 docToAllergenItem(id, db["allergenItems"][id]))
                   ELSE Done("getAllergenItem", "null")

----------------------------------------------------------------------------
(* Specification of extraction: one stored document of any shape, and the reads *)

SparseOrDense(keys) ==
    {S \in SUBSET keys : Cardinality(S) <= MaxOdd \/ Cardinality(keys \ S) <= MaxOdd}

PositionOf(order, k) == CHOOSE i \in 1..Len(order) : order[i] = k

\* nutrition objects: all values zero, or every key with a value of its own
NutritionObjects ==
    {[k \in S |-> IF zero THEN 0 ELSE 10 * PositionOf(NutritionKeyOrder, k)] :
        S \in SparseOrDense(NutritionKeys), zero \in BOOLEAN}

\* allergen objects: the flags alternate along the key order, starting either way
AllergenObjects ==
    {[k \in S |-> (PositionOf(AllergenKeyOrder, k) % 2 = 1) = odd] :
        S \in SparseOrDense(AllergenKeys), odd \in BOOLEAN}

\* an object stored nested under `key`, or as flat top-level fields
StoredShapes(key, objects) == {[x \in {key} |-> o] : o \in objects} \cup objects

ItemHead == [name |-> "Taco", categoryId |-> "c1"]
StoredId == "s1"

StoredDocs(coll) ==
    {ItemHead @@ a : a \in StoredShapes("allergens", AllergenObjects)}
    \cup (IF coll = "allergenItems" THEN {}
          ELSE {ItemHead @@ n : n \in StoredShapes("nutrition", NutritionObjects)})

InitExtract ==
    /\ family \in Families
    /\ \E coll \in (IF IsMenu(family) THEN {"items", "base_items"} ELSE {"allergenItems"}) :
         \E doc \in StoredDocs(coll) :
            db = [EmptyDb EXCEPT ![coll] = [x \in {StoredId} |-> doc]]
    /\ nextId = NoIds
    /\ last = Done("init", "")
    /\ pending = {}
    /\ session = NoSession

NextExtract ==
    \/ IsMenu(family) /\ NormGetItem /\ Quiet
    \/ ~IsMenu(family) /\ getAllergenItem /\ Quiet

SpecExtract == InitExtract /\ [][NextExtract]_vars

\* the one stored document of an extraction run
StoredDoc ==
    LET coll == CHOOSE c \in Collections : StoredId \in DOMAIN db[c]
    IN  db[coll][StoredId]

\* what is stored for key k of the object `field`, nested or flat; dflt when absent
StoredValue(doc, field, k, dflt) ==
    IF Has(doc, field)
    THEN (IF Has(doc[field], k) THEN doc[field][k] ELSE dflt)
    ELSE (IF Has(doc, k) THEN doc[k] ELSE dflt)

\* C9: for a stored document whose nutrition / allergen data is a nested object
\* with any subset of the keys or flat fields with any subset present, a read
\* returns an object whose keys are exactly the 15 nutrition keys (the 12
\* allergen keys), every key absent from storage being 0 (false) and every
\* stored key keeping its value; the read does not fail
C9_ExtractionIsComplete ==
    (last.op \in {"getItem", "getAllergenItem"} /\ last.status # "null") =>
        /\ last.status = "ok"
        /\ Has(last.data, "allergens")
        /\ DOMAIN last.data.allergens = AllergenKeys
        /\ \A k \in AllergenKeys :
              last.data.allergens[k] = StoredValue(StoredDoc, "allergens", k, FALSE)
        /\ last.op = "getItem" =>
              /\ Has(last.data, "nutrition")
              /\ DOMAIN last.data.nutrition = NutritionKeys
              /\ \A k \in NutritionKeys :
                    last.data.nutrition[k] = StoredValue(StoredDoc, "nutrition", k, 0)

\* C9 witness: a document with flat nutrition fields, calories among them and
\* protein not, has been read: calories kept its value and protein is 0
C9_Witness ==
    /\ last.op = "getItem" /\ last.status = "ok"
    /\ ~Has(StoredDoc, "nutrition")
    /\ Has(StoredDoc, "calories") /\ StoredDoc.calories = 10
    /\ ~Has(StoredDoc, "protein")
    /\ last.data.nutrition.calories = 10
    /\ last.data.nutrition.protein = 0

----------------------------------------------------------------------------
(* Specification of the REST reads: items are posted, then read back *)

ReadFamilies ==
    {[Menu EXCEPT !.payloads = NutritionInputs],
     [Allergen EXCEPT !.payloads = AllergenInputs]}

InitRead ==
    /\ family \in ReadFamilies
    /\ db = [EmptyDb EXCEPT ![family.cats] = InitialCategories]
    /\ nextId = NoIds
    /\ last = Done("init", "")
    /\ pending = {}
    /\ session = NoSession

NextRead ==
    \/ PostItem(family) /\ Quiet
    \/ PostItemsBulk(family) /\ Quiet
    \/ GetItem(family) /\ Quiet
    \/ IsMenu(family) /\ NormGetItem /\ Quiet
    \/ ~IsMenu(family) /\ getAllergenItem /\ Quiet

SpecRead == InitRead /\ [][NextRead]_vars

\* whether object `field` of an item is there with every key of the key set
Complete(item, field, keys) == Has(item, field) /\ DOMAIN item[field] = keys

\* C10: every read that returns an item returns it with a nutrition object and
\* an allergen object (an allergen item: with an allergen object) that have
\* every key of the fixed key set
C10_ReadsReturnCompleteObjects ==
    (last.op \in {"GET /items", "GET /allergen-items", "getItem", "getAllergenItem"}
       /\ last.status \in {"200", "ok"})
    => /\ Complete(last.data, "allergens", AllergenKeys)
       /\ last.op \in {"GET /items", "getItem"} => Complete(last.data, "nutrition", NutritionKeys)

----------------------------------------------------------------------------
(* The one-time migration (items -> base_items + item_categories) and the list
   read getItems of the normalized service, each with its awaits as steps *)

MaxLegacy == 3
MigrateBatchSize == 2

LegacyIdPool == << "i1", "i2", "i3", "i4" >>

\* legacy flat items as the REST API and the older import stored them: nested or
\* flat nutrition, the category's name copied into the item or left ''
LegacyDocs ==
    {[name |-> "Taco", categoryId |-> "c1", categoryName |-> "Entrees",
      nutrition |-> [calories |-> 300]],
     [name |-> "Taco", categoryId |-> "c2", categoryName |-> "Sides",
      nutrition |-> [calories |-> 300]],
     [name |-> "taco", categoryId |-> "c1", categoryName |-> "Entrees",
      nutrition |-> [calories |-> 300], allergens |-> [milk |-> TRUE]],
     [name |-> "Taco", categoryId |-> "c1", categoryName |-> "", calories |-> 300],
     [name |-> "taco", categoryId |-> "c2", categoryName |-> "Sides",
      nutrition |-> [calories |-> 500]]}

\* the orders a set of documents can be listed in
Orderings(S) ==
    {seq \in [1..Cardinality(S) -> S] : \A i, j \in DOMAIN seq : i # j => seq[i] # seq[j]}

\* orderBy('name', 'asc') on a collection: documents that have the field, by name
\* (byte order, so capitals first), then by document id
OrderByName(d, coll) ==
    LET NameOrder == << "Entrees", "Sides", "Taco", "taco" >>
        rank(x) == CHOOSE i \in 1..Len(NameOrder) : NameOrder[i] = x
        named == {id \in DOMAIN d[coll] : Has(d[coll][id], "name")}
        idRank(id) == CHOOSE i \in 1..Len(LegacyIdPool) : LegacyIdPool[i] = id
        before(a, b) ==
            \/ rank(d[coll][a].name) < rank(d[coll][b].name)
            \/ /\ d[coll][a].name = d[coll][b].name
               /\ idRank(a) < idRank(b)
    IN  CHOOSE seq \in Orderings(named) :
            \A i, j \in DOMAIN seq : i < j => before(seq[i], seq[j])

\* mutant of MigrateKey: the name is compared as written
MigrateKeyCaseSensitive(data) == << StrOr(data, "name", ""), Stringify(NutritionOf(data)) >>

\* the dedup key of the migration: `${name.toLowerCase()}|${JSON.stringify(nutrition)}`
MigrateKey(data) == << ToLowerCase(StrOr(data, "name", "")), Stringify(NutritionOf(data)) >>

\* the body of the migration loop for one legacy document: a base item unless the
\* key was seen in this run, and always an assignment row
MigrateRow(st, data) ==
    LET key == MigrateKey(data)
        baseRef == DocIdPool[st.doc + 1]
        assignmentRef == RowIdPool[st.row + 1]
        categoryId == StrOr(data, "categoryId", "")
    IN  IF key \in DOMAIN st.seen
        THEN [st EXCEPT !.batch = Append(@, SetW("item_categories", assignmentRef,
                                                 AssignmentRow(st.seen[key], categoryId))),
                        !.row = @ + 1,
                        !.assignmentCount = @ + 1]
        ELSE [st EXCEPT !.batch = @ \o
                            << SetW("base_items", baseRef,
                                    [name |-> StrOr(data, "name", ""),
                                     nutrition |-> NutritionOf(data),
                                     allergens |-> extractAllergens(data)]),
                               SetW("item_categories", assignmentRef,
                                    AssignmentRow(baseRef, categoryId)) >>,
                        !.seen = Put(@, key, baseRef),
                        !.doc = @ + 1,
                        !.row = @ + 1,
                        !.baseCount = @ + 1,
                        !.assignmentCount = @ + 1]

\* the batch of one chunk: the documents i .. hi of the snapshot
RECURSIVE MigrateRows(_, _, _, _)
MigrateRows(st, docs, i, hi) ==
    IF i > hi THEN st ELSE MigrateRows(MigrateRow(st, docs[i]), docs, i + 1, hi)

\* the chunk a running migration commits next
MigrateChunkOf(run) ==
    LET hi == IF run.i + MigrateBatchSize - 1 < Len(run.docs)
              THEN run.i + MigrateBatchSize - 1 ELSE Len(run.docs)
    IN  MigrateRows([batch |-> << >>, seen |-> run.seen,
                     doc |-> nextId.doc, row |-> nextId.row,
                     baseCount |-> run.baseCount,
                     assignmentCount |-> run.assignmentCount],
                    run.docs, run.i, hi)

Migrations == {run \in pending : run.op = "migrate"}

\* migrateFromLegacyItems up to its first commit: the snapshot of `items`
MigrateBegin ==
    LET order == OrderByName(db, "items")
        docs == [i \in DOMAIN order |-> db["items"][order[i]]]
    IN  /\ Migrations = {}
        /\ nextId.row + Len(docs) <= MaxLegacy
        /\ UNCHANGED <<db, nextId, family, session>>
        /\ IF docs = << >>
           THEN /\ last' = Returned("migrateFromLegacyItems", "ok",
                                    [baseItems |-> 0, assignments |-> 0])
                /\ UNCHANGED pending
           ELSE /\ pending' = pending \cup
                       {[op |-> "migrate", docs |-> docs, i |-> 1, seen |-> << >>,
                         baseCount |-> 0, assignmentCount |-> 0]}
                /\ UNCHANGED last

\* one turn of the chunk loop: fill a batch, commit it; after the last chunk the
\* call returns its counts
MigrateChunk ==
    \E run \in Migrations :
        LET st == MigrateChunkOf(run)
            i == run.i + MigrateBatchSize
        IN  /\ db' = Commit(db, st.batch)
            /\ nextId' = [nextId EXCEPT !.doc = st.doc, !.row = st.row]
            /\ UNCHANGED <<family, session>>
            /\ IF i > Len(run.docs)
               THEN /\ pending' = pending \ {run}
                    /\ last' = Returned("migrateFromLegacyItems", "ok",
                                        [baseItems |-> st.baseCount,
                                         assignments |-> st.assignmentCount])
               ELSE /\ pending' = (pending \ {run}) \cup
                           {[run EXCEPT !.i = i, !.seen = st.seen,
                                        !.baseCount = st.baseCount,
                                        !.assignmentCount = st.assignmentCount]}
                    /\ UNCHANGED last

\* mutant of getItemsLegacy: the query without its orderBy (documents by id)
getItemsLegacyById(d) ==
    LET ids == DOMAIN d["items"]
        order == CHOOSE seq \in Orderings(ids) :
                    \A i, j \in DOMAIN seq : i < j =>
                        (CHOOSE k \in 1..Len(LegacyIdPool) : LegacyIdPool[k] = seq[i])
                          < (CHOOSE k \in 1..Len(LegacyIdPool) : LegacyIdPool[k] = seq[j])
    IN  [i \in DOMAIN order |-> legacyDocToMenuItem(order[i], d["items"][order[i]])]

\* getItems over legacy documents only: one entry per document, ordered by name
getItemsLegacy(d) ==
    LET order == OrderByName(d, "items")
    IN  [i \in DOMAIN order |-> legacyDocToMenuItem(order[i], d["items"][order[i]])]

\* the assignment getItems may find first for each base item of the snapshot (row
\* ids are random, so any of the item's rows), UnknownId where it has none
PrimaryChoices(d, ids) ==
    [ids -> DOMAIN d["item_categories"] \cup {UnknownId}] \cap
    {f \in [ids -> DOMAIN d["item_categories"] \cup {UnknownId}] :
        \A id \in ids : IF AssignmentsOf(d, id) = {} THEN f[id] = UnknownId
                        ELSE f[id] \in AssignmentsOf(d, id)}

\* the entry getItems makes for one base item of the snapshot
getItemsEntry(d, baseSnap, primary, id) ==
    LET base == getBaseItem([d EXCEPT !["base_items"] = baseSnap], id)
        categoryId == d["item_categories"][primary[id]].categoryId
    IN  IF primary[id] = UnknownId
        THEN baseItemToMenuItem(base, "", "Uncategorized")
        ELSE baseItemToMenuItem(base, categoryId,
                                IF categoryId \in DOMAIN d["categories"]
                                THEN StrOr(d["categories"][categoryId], "name", "")
                                ELSE "")

Listings == {run \in pending : run.op = "getItems"}

\* getItems up to its second read: the snapshot of base_items
GetItemsBegin ==
    /\ Listings = {}
    /\ pending' = pending \cup {[op |-> "getItems", base |-> db["base_items"]]}
    /\ UNCHANGED <<db, nextId, family, session, last>>

\* the rest of getItems: the legacy documents if the snapshot was empty, else the
\* assignments and categories, and one entry per base item of the snapshot
GetItemsEnd ==
    \E run \in Listings :
        /\ pending' = pending \ {run}
        /\ UNCHANGED <<db, nextId, family, session>>
        /\ IF DOMAIN run.base = {}
           THEN last' = Returned("getItems", "ok",
                                 [base |-> {}, items |-> getItemsLegacy(db)])
           ELSE \E primary \in PrimaryChoices(db, DOMAIN run.base) :
                  \E order \in Orderings(DOMAIN run.base) :
                    last' = Returned("getItems", "ok",
                                [base |-> DOMAIN run.base,
                                 items |-> [i \in DOMAIN order |->
                                              getItemsEntry(db, run.base, primary, order[i])]])

\* a legacy-only store: the two categories and up to MaxLegacy flat items
InitMigrate ==
    /\ family = Menu
    /\ \E n \in 0..MaxLegacy :
         \E docs \in [1..n -> LegacyDocs] :
           db = [EmptyDb EXCEPT !["categories"] = InitialCategories,
                                !["items"] = [id \in {LegacyIdPool[i] : i \in 1..n} |->
                                                docs[CHOOSE i \in 1..n : LegacyIdPool[i] = id]]]
    /\ nextId = NoIds
    /\ last = Done("init", "")
    /\ pending = {}
    /\ session = NoSession

NextMigrate ==
    \/ MigrateBegin
    \/ MigrateChunk
    \/ GetItemsBegin
    \/ GetItemsEnd

SpecMigrate == InitMigrate /\ [][NextMigrate]_vars

\* Firestore's ceiling on the writes of one batch, on the scale of the batch sizes
WriteLimit == 2

\* C16: every batch the migration commits holds at most WriteLimit writes, base
\* items and assignment rows each counted as one
C16_BatchesWithinLimit ==
    [][\A run \in Migrations :
          run \notin Migrations' => Len(MigrateChunkOf(run).batch) <= WriteLimit]_vars

\* what a list entry says about the logical item
Logical(e) ==
    [name |-> e.name, nutrition |-> e.nutrition, allergens |-> e.allergens,
     categoryName |-> e.categoryName]

\* exactly one migration has run to its end over the store, and nothing else
MigratedOnce ==
    /\ Migrations = {}
    /\ Ids("items") # {}
    /\ nextId.row = Cardinality(Ids("items"))

\* C11: once a legacy-only store has been migrated, getItems over the normalized
\* records describes the same logical items as getItems over the legacy documents:
\* every legacy entry has a normalized entry with the same name, nutrition,
\* allergens and category name, and every normalized entry has such a legacy entry
C11_MigrationKeepsListing ==
    MigratedOnce =>
        \A primary \in PrimaryChoices(db, Ids("base_items")) :
            {Logical(getItemsEntry(db, db["base_items"], primary, id)) : id \in Ids("base_items")}
                = {Logical(getItemsLegacy(db)[i]) : i \in DOMAIN getItemsLegacy(db)}

\* the ids of the entries of a listing, and names in ascending (byte) order
EntryIds(items) == {items[i].id : i \in DOMAIN items}
NameAtMost(a, b) == a = b \/ (a = "Taco" /\ b = "taco")

\* C12: whatever the store holds when getItems reads base_items, between two
\* chunks of a running migration included, the call returns either exactly one
\* entry per base item of that read and no entry of a legacy document, or (when
\* that read was empty) exactly one entry per legacy document, ordered by name
C12_ListingTakesOnePath ==
    last.op = "getItems" =>
        LET items == last.data.items
        IN  /\ Len(items) = Cardinality(EntryIds(items))
            /\ IF last.data.base # {}
               THEN /\ EntryIds(items) = last.data.base
                    /\ EntryIds(items) \cap Ids("items") = {}
               ELSE /\ EntryIds(items) = Ids("items")
                    /\ \A i \in DOMAIN items :
                         items[i].name = db["items"][items[i].id].name
                    /\ \A i, j \in DOMAIN items :
                         i < j => NameAtMost(items[i].name, items[j].name)

\* a listing read between two chunks of the first migration: some legacy documents
\* are migrated, others are not, and the listing holds the migrated ones only
C12_Witness ==
    /\ last.op = "getItems"
    /\ last.data.base # {}
    /\ Migrations # {}
    /\ nextId.row < Cardinality(Ids("items"))
    /\ Len(last.data.items) < Cardinality(Ids("items"))

----------------------------------------------------------------------------
(* Category create and update: the REST handlers and the services *)

\* bodies of a category create or update: a name given, blank or absent, a slug
\* given or absent, and possibly a key the forms do not have (itemCount)
CategoryBodies ==
    {n @@ g @@ c :
        n \in Opt("name", {"", "Salsas"}), g \in Opt("slug", {"salsas"}),
        c \in Opt("itemCount", {5})}

\* the fields the category handlers of a family read from a body
CategoryFields(fam) ==
    IF IsMenu(fam) THEN {"name", "slug", "description", "displayOrder", "isActive"}
    ELSE {"name", "displayOrder", "isActive"}

\* POST /categories, POST /allergen-categories
PostCategory(fam) ==
    \E body \in CategoryBodies :
        IF Blank(body, "name") \/ (IsMenu(fam) /\ Blank(body, "slug"))
        THEN /\ last' = Done("POST " \o fam.catPath, "400")
             /\ UNCHANGED <<db, nextId>>
        ELSE /\ nextId.cat < MaxNewCategories
             /\ db' = Commit(db, << SetW(fam.cats, CatIdPool[nextId.cat + 1],
                         NewCategory([k \in DOMAIN body \cap {"name", "slug"} |-> body[k]]
                                     @@ [displayOrder |->
                                           IF Has(body, "displayOrder") THEN body.displayOrder
                                           ELSE 0])) >>)
             /\ nextId' = [nextId EXCEPT !.cat = @ + 1]
             /\ last' = Returned("POST " \o fam.catPath, "201",
                                 [id |-> CatIdPool[nextId.cat + 1]])

\* PUT /categories/:id, PUT /allergen-categories/:id
PutCategory(fam) ==
    \E id \in Ids(fam.cats) \cup {UnknownId}, body \in CategoryBodies :
        LET updateData == [k \in DOMAIN body \cap CategoryFields(fam) |-> body[k]]
            ws == << UpdW(fam.cats, id, updateData, 0) >>
        IN  /\ db' = Commit(db, ws)
            /\ last' = IF CommitOK(db, ws)
                       THEN Returned("PUT " \o fam.catPath, "200", [id |-> id, body |-> body])
                       ELSE Done("PUT " \o fam.catPath, "500")
            /\ UNCHANGED nextId

\* createCategory of the services: the form as given, with itemCount 0
createCategory(fam) ==
    \E data \in CategoryBodies :
        /\ nextId.cat < MaxNewCategories
        /\ db' = Commit(db, << SetW(fam.cats, CatIdPool[nextId.cat + 1],
                                    [itemCount |-> 0] @@ data) >>)
        /\ nextId' = [nextId EXCEPT !.cat = @ + 1]
        /\ last' = Returned("createCategory", "ok",
                            [id |-> CatIdPool[nextId.cat + 1], data |-> data])

\* updateCategory of the services: the whole payload is written
updateCategory(fam) ==
    \E id \in Ids(fam.cats) \cup {UnknownId}, data \in CategoryBodies :
        LET ws == << UpdW(fam.cats, id, data, 0) >>
        IN  /\ db' = Commit(db, ws)
            /\ last' = IF CommitOK(db, ws)
                       THEN Returned("updateCategory", "ok", [id |-> id, body |-> data])
                       ELSE Done("updateCategory", "throw")
            /\ UNCHANGED nextId

----------------------------------------------------------------------------
(* The middleware in front of every mutating route: authenticate, requireAdmin *)

MaxClock == 2
ALLOWED_DOMAIN == "caferio.com"

\* the apiKeys collection: a key without expiry, one that expires at time 1, and
\* a deactivated one
ApiKeys ==
    {[key |-> "k-live", isActive |-> TRUE],
     [key |-> "k-dated", isActive |-> TRUE, expiresAt |-> 1],
     [key |-> "k-off", isActive |-> FALSE]}

\* admin.auth().verifyIdToken: the decoded token, for the tokens that verify
Tokens ==
    [t \in {"t-admin", "t-editor", "t-outside"} |->
        CASE t = "t-admin" -> [uid |-> "u-admin", email |-> [user |-> "ana", domain |-> "caferio.com"]]
          [] t = "t-editor" -> [uid |-> "u-editor", email |-> [user |-> "ed", domain |-> "caferio.com"]]
          [] t = "t-outside" -> [uid |-> "u-outside", email |-> [user |-> "eve", domain |-> "gmail.com"]]]

\* the users collection
Users ==
    [u \in {"u-admin", "u-editor", "u-outside"} |->
        [role |-> IF u = "u-editor" THEN "editor" ELSE "admin"]]

\* the headers of a request: X-API-Key ('' when absent) and Authorization (scheme
\* '' when absent)
Headers ==
    {[apiKey |-> k, scheme |-> a[1], token |-> a[2]] :
        k \in {"", "k-dated", "k-off"},
        a \in {<<"", "">>, <<"Bearer", "t-admin">>, <<"Bearer", "t-editor">>,
               <<"Bearer", "t-outside">>, <<"Bearer", "t-forged">>}}

\* the guarded routes of a family: the category and item handlers of the model
MutatingRoutes == {"DELETE category", "POST item", "DELETE item"}

\* mutant of KeyExpired: expiresAt is not looked at
KeyNeverExpired(keyData, now) == FALSE

\* expiresAt && new Date() > new Date(expiresAt)
KeyExpired(keyData, now) == Has(keyData, "expiresAt") /\ now > keyData.expiresAt

\* mutant of EmailAllowed: any verified email passes
AnyEmailAllowed(email) == TRUE

\* email.endsWith(`@${ALLOWED_DOMAIN}`)
EmailAllowed(email) == email.domain = ALLOWED_DOMAIN

\* the request the server is working on, or the one it answered last
Requests == {req \in pending : req.op = "request"}
Answered(req, status) == [req EXCEPT !.stage = "answered", !.status = status]

\* authenticate: an active, unexpired key record, else a verified token of the
\* domain; 403 for a verified token outside the domain, 401 otherwise
Authenticate ==
    \E route \in MutatingRoutes, headers \in Headers, now \in 1..MaxClock :
        LET keyDoc == {k \in ApiKeys : k.key = headers.apiKey /\ k.isActive}
            keyed == /\ headers.apiKey # ""
                     /\ \E keyData \in keyDoc : ~KeyExpired(keyData, now)
            verified == headers.scheme = "Bearer" /\ headers.token \in DOMAIN Tokens
            req == [op |-> "request", route |-> route, headers |-> headers, now |-> now,
                    apiKey |-> keyed,
                    user |-> IF keyed \/ ~verified THEN "" ELSE Tokens[headers.token].uid,
                    stage |-> "requireAdmin", status |-> ""]
        IN  /\ \A r \in Requests : r.stage = "answered"
            /\ UNCHANGED <<db, nextId, family, session, last>>
            /\ pending' = (pending \ Requests) \cup
                   {IF keyed \/ (verified /\ EmailAllowed(Tokens[headers.token].email))
                    THEN req
                    ELSE Answered(req, IF verified THEN "403" ELSE "401")}

\* requireAdmin: key holders pass, users need role 'admin' in their user document
RequireAdmin ==
    \E req \in {r \in Requests : r.stage = "requireAdmin"} :
        /\ UNCHANGED <<db, nextId, family, session, last>>
        /\ pending' = (pending \ {req}) \cup
               {IF req.apiKey \/ (req.user \in DOMAIN Users /\ Users[req.user].role = "admin")
                THEN [req EXCEPT !.stage = "handler"]
                ELSE Answered(req, "403")}

\* the handler of the route, reached through both middlewares
Handle ==
    \E req \in {r \in Requests : r.stage = "handler"} :
        /\ \/ req.route = "DELETE category" /\ DeleteCategory(family)
           \/ req.route = "POST item" /\ PostItem(family)
           \/ req.route = "DELETE item" /\ DeleteItem(family)
        /\ pending' = (pending \ {req}) \cup {Answered(req, last'.status)}
        /\ UNCHANGED <<family, session>>

NextAuth ==
    \/ Authenticate
    \/ RequireAdmin
    \/ Handle

SpecAuth == Init /\ [][NextAuth]_vars

\* what a request presented: a key of an active record not past its expiry at the
\* time of the request; a token that verifies; one of an admin of the domain
ValidKey(req) ==
    \E k \in ApiKeys : /\ k.key = req.headers.apiKey
                       /\ k.isActive
                       /\ ("expiresAt" \in DOMAIN k => req.now <= k.expiresAt)
Verifies(req) == req.headers.scheme = "Bearer" /\ req.headers.token \in DOMAIN Tokens
Outside(req) == Tokens[req.headers.token].email.domain # "caferio.com"
NotAdmin(req) == Users[Tokens[req.headers.token].uid].role # "admin"

\* C13: a step of a guarded route changes the store only for a request that
\* carried a valid unexpired API key or a verified token of an @caferio.com admin;
\* requests without credentials or with only an expired key never write
C13_WritesNeedCredentials ==
    [][db' # db =>
         \E req \in Requests :
             /\ req.stage = "handler"
             /\ \/ ValidKey(req)
                \/ Verifies(req) /\ ~Outside(req) /\ ~NotAdmin(req)]_vars

\* an item created for a request that carried only an API key, before the key's
\* expiry
C13_Witness ==
    \E req \in Requests :
        /\ req.stage = "answered" /\ req.status = "201"
        /\ req.headers.apiKey = "k-dated" /\ req.headers.scheme = ""
        /\ Ids(family.items) # {}

\* a request answered 401 or 403 in this step left the store as it was
RejectedUntouched ==
    \A req \in Requests' \ Requests :
        req.stage = "answered" /\ req.status \in {"401", "403"} => db' = db

\* C14 as stated: for every combination of credentials, neither a valid key nor
\* a verifiable token gives 401, and a verifying token whose email is outside
\* the domain or whose user is not an admin gives 403, before any catalog access
C14_RejectionsAsStated ==
    [][/\ RejectedUntouched
       /\ \A req \in Requests' :
            /\ ~ValidKey(req) /\ ~Verifies(req) =>
                   req.stage = "answered" /\ req.status = "401"
            /\ Verifies(req) /\ (Outside(req) \/ NotAdmin(req)) =>
                   /\ req.stage \in {"requireAdmin", "answered"}
                   /\ req.stage = "answered" => req.status = "403"]_vars

\* C14, amended: the 403 cases are those of a request without a valid API key (a
\* valid key is trusted whatever token comes with it)
C14_RejectionsWithoutKey ==
    [][/\ RejectedUntouched
       /\ \A req \in Requests' :
            /\ ~ValidKey(req) /\ ~Verifies(req) =>
                   req.stage = "answered" /\ req.status = "401"
            /\ ~ValidKey(req) /\ Verifies(req) /\ (Outside(req) \/ NotAdmin(req)) =>
                   /\ req.stage \in {"requireAdmin", "answered"}
                   /\ req.stage = "answered" => req.status = "403"]_vars

\* a verified token of the domain whose user is not an admin, answered 403 with
\* the store as the requests before it left it
C14_Witness ==
    \E req \in Requests :
        /\ req.stage = "answered" /\ req.status = "403"
        /\ req.headers.token = "t-editor" /\ req.headers.apiKey = "k-dated" /\ req.now = 2

----------------------------------------------------------------------------
(* Imports: the admin page's nutrition import and the REST bulk endpoints *)

\* a store an earlier import has filled: one base item assigned to both categories
InitImport ==
    /\ family \in Families
    /\ db = [EmptyDb EXCEPT
                ![family.cats] = InitialCategories,
                !["categories"] = InitialCategories,
                !["base_items"] = [id \in {"d1"} |->
                                     BulkBaseItem([name |-> "Taco", categoryId |-> "c1"])],
                !["item_categories"] = [id \in {"a1", "a2"} |->
                                          AssignmentRow("d1", IF id = "a1" THEN "c1" ELSE "c2")]]
    /\ nextId = [cat |-> 0, doc |-> 1, row |-> 2]
    /\ last = Done("init", "")
    /\ pending = {}
    /\ session = NoSession

NextImport ==
    \/ handleNutritionImport /\ Quiet
    \/ PostItemsBulk(family) /\ Quiet

SpecImport == InitImport /\ [][NextImport]_vars

\* a file that is unparseable, or neither an array nor an object with items
Malformed(file) == file.kind # "array" /\ ~(file.kind = "object" /\ "items" \in DOMAIN file.value)

RestBulkOps == {"POST /items/bulk", "POST /allergen-items/bulk"}

\* C15: an import of a malformed file ends without any write, and a REST bulk
\* request is answered 400 with the store unchanged unless its items are a
\* non-empty array (only then are document ids handed out)
C15_MalformedImportWritesNothing ==
    [][/\ last'.op = "handleNutritionImport" /\ Malformed(last'.data.file) =>
             last'.status = "return" /\ db' = db /\ nextId' = nextId
       /\ last'.op \in RestBulkOps =>
             IF last'.status = "400" THEN db' = db /\ nextId' = nextId
             ELSE nextId'.doc > nextId.doc]_vars

\* a store that holds imported items, after an object without items was offered
C15_Witness ==
    /\ last.op = "handleNutritionImport"
    /\ last.status = "return"
    /\ last.data.file.kind = "object"
    /\ Ids("base_items") # {}

----------------------------------------------------------------------------
(* Creating and updating categories, through the API and through the services *)

\* a store whose second category was deleted and that has room for one more
InitEdit ==
    /\ family \in Families
    /\ db = [EmptyDb EXCEPT ![family.cats] = [c \in {"c1"} |-> InitialCategories[c]]]
    /\ nextId = [NoIds EXCEPT !.cat = MaxNewCategories - 1]
    /\ last = Done("init", "")
    /\ pending = {}
    /\ session = NoSession

NextEdit ==
    \/ PostCategory(family) /\ Quiet
    \/ PutCategory(family) /\ Quiet
    \/ createCategory(family) /\ Quiet
    \/ updateCategory(family) /\ Quiet
    \/ PostItem(family) /\ Quiet

SpecEdit == InitEdit /\ [][NextEdit]_vars

\* the documents a step added to a collection
Added(coll) == DOMAIN db'[coll] \ DOMAIN db[coll]

\* C17: a create request that lacks a required field writes nothing: every
\* category a step creates has a name (and, for a menu category, a slug), every
\* item it creates has a name and a categoryId, and a step answered 400 leaves
\* the store, the item counts included, as it was
C17_CreateNeedsRequiredFields ==
    [][/\ \A c \in Added(family.cats) :
            /\ ~Blank(db'[family.cats][c], "name")
            /\ IsMenu(family) => ~Blank(db'[family.cats][c], "slug")
       /\ \A i \in Added(family.items) :
            /\ ~Blank(db'[family.items][i], "name")
            /\ ~Blank(db'[family.items][i], "categoryId")
       /\ last'.status = "400" => db' = db]_vars

CategoryUpdateOps == {"PUT /categories", "PUT /allergen-categories", "updateCategory"}

\* C18: a category update that succeeds changes only fields its payload carries,
\* and never the stored itemCount, whatever keys the payload has
C18_UpdateTouchesPayloadFieldsOnly ==
    [][last'.op \in CategoryUpdateOps /\ last'.status \in {"200", "ok"} =>
         LET id == last'.data.id
             before == db[family.cats][id]
             after == db'[family.cats][id]
         IN  /\ \A k \in (DOMAIN before \cup DOMAIN after) \ DOMAIN last'.data.body :
                    k \in DOMAIN before /\ k \in DOMAIN after /\ before[k] = after[k]
             /\ after.itemCount = before.itemCount]_vars

----------------------------------------------------------------------------
(* Sign-in in the browser: AuthContext.tsx and the login overlay *)

MaxQueue == 2

\* the Google accounts a visitor may pick in the popup (hd is a hint to the
\* account chooser, not a restriction)
Accounts == {[user |-> "ana", domain |-> "caferio.com"], [user |-> "eve", domain |-> "gmail.com"]}

Browser == UNCHANGED <<db, nextId, family, last, pending>>

\* loginWithGoogle up to its first await: the popup opens
LoginStart ==
    /\ session.login \in {"idle", "done", "thrown"}
    /\ session' = [session EXCEPT !.login = "popup", !.result = NoUser]
    /\ Browser

\* signInWithPopup settles: the visitor closed the popup (it rejects), or picked an
\* account, which becomes the auth SDK's user and is announced to the listeners
PopupSettles ==
    /\ session.login = "popup"
    /\ Len(session.notify) < MaxQueue
    /\ \/ session' = [session EXCEPT !.login = "thrown"]
       \/ \E account \in Accounts :
            session' = [session EXCEPT !.login = "validate", !.result = account,
                                       !.authUser = account,
                                       !.notify = Append(@, account)]
    /\ Browser

\* the onAuthStateChanged callback: setCurrentUser(user)
AuthStateChanged ==
    /\ session.notify # << >>
    /\ session' = [session EXCEPT !.currentUser = Head(session.notify),
                                  !.notify = Tail(@)]
    /\ Browser

\* the domain check after the popup: done, or on to signOut
ValidateDomain ==
    /\ session.login = "validate"
    /\ session' = [session EXCEPT !.login =
                      IF session.restricted /\ ~EmailAllowed(session.result)
                      THEN "signOut" ELSE "done"]
    /\ Browser

\* signOut(auth) settles, and loginWithGoogle throws
SignedOut ==
    /\ session.login = "signOut"
    /\ Len(session.notify) < MaxQueue
    /\ session' = [session EXCEPT !.login = "thrown", !.authUser = NoUser,
                                  !.notify = Append(@, NoUser)]
    /\ Browser

\* the page is loaded by a production build (restriction active) or a dev build
InitLogin ==
    /\ family = Menu
    /\ db = EmptyDb
    /\ nextId = NoIds
    /\ last = Done("init", "")
    /\ pending = {}
    /\ session \in {[NoSession EXCEPT !.restricted = r] : r \in BOOLEAN}

NextLogin ==
    \/ LoginStart
    \/ PopupSettles
    \/ AuthStateChanged
    \/ ValidateDomain
    \/ SignedOut

SpecLogin == InitLogin /\ [][NextLogin]_vars

\* C19: with the domain restriction active, a completed loginWithGoogle has a
\* user of the domain, and at no moment of the popup, the auth-state callback
\* and the sign-out does currentUser hold an account outside the domain (the
\* login overlay shows whenever currentUser is empty)
C19_OnlyDomainUsersHeld ==
    session.restricted =>
        /\ session.login = "done" => session.result.domain = "caferio.com"
        /\ session.currentUser.domain \in {"", "caferio.com"}

----------------------------------------------------------------------------
(* Category deletion against item creation and reassignment, await by await *)

Deletions == {run \in pending : run.op = "DELETE category"}
Reassignments == {run \in pending : run.op = "PUT item"}

\* DELETE /categories/:id up to its second await: the query for items of the
\* category
DeleteCategoryReads(fam) ==
    \E id \in CategoryIdInputs \ {""} :
        /\ Deletions = {}
        /\ pending' = pending \cup
               {[op |-> "DELETE category", id |-> id,
                 empty |-> ItemsOfCategory(fam.items, id) = {}]}
        /\ UNCHANGED <<db, nextId, family, session, last>>

\* the rest of DELETE /categories/:id: 400 if the query found an item, else the
\* delete
DeleteCategoryWrites(fam) ==
    \E run \in Deletions :
        /\ pending' = pending \ {run}
        /\ UNCHANGED <<nextId, family, session>>
        /\ IF ~run.empty
           THEN /\ last' = Done("DELETE " \o fam.catPath, "400")
                /\ UNCHANGED db
           ELSE /\ db' = Commit(db, << DelW(fam.cats, run.id) >>)
                /\ last' = Done("DELETE " \o fam.catPath, "200")

\* PUT /items/:id with a categoryId, up to its second await: the item as read
PutItemReads(fam) ==
    \E id \in Ids(fam.items) \cup {UnknownId},
       body \in {b \in UpdateBodies(fam) : Has(b, "categoryId")} :
        /\ Reassignments = {}
        /\ pending' = pending \cup
               {[op |-> "PUT item", id |-> id, body |-> body,
                 exists |-> id \in Ids(fam.items),
                 categoryId |-> IF id \in Ids(fam.items) THEN db[fam.items][id].categoryId
                                ELSE ""]}
        /\ UNCHANGED <<db, nextId, family, session, last>>

\* the rest of PUT /items/:id: the batch that moves the counts if the item read
\* had another category, else the plain update
PutItemWrites(fam) ==
    \E run \in Reassignments :
        LET ws == IF run.exists /\ run.categoryId # run.body.categoryId
                  THEN ReassignWrites(fam, run.id, run.body, run.categoryId,
                                      run.body.categoryId)
                  ELSE << UpdW(fam.items, run.id, run.body, 0) >>
        IN  /\ pending' = pending \ {run}
            /\ UNCHANGED <<nextId, family, session>>
            /\ db' = Commit(db, ws)
            /\ last' = Done("PUT " \o fam.path, IF CommitOK(db, ws) THEN "200" ELSE "500")

NextRace ==
    \/ DeleteCategoryReads(family)
    \/ DeleteCategoryWrites(family)
    \/ PutItemReads(family)
    \/ PutItemWrites(family)
    \/ PostItem(family) /\ Quiet
    \/ DeleteItem(family) /\ Quiet

SpecRace == Init /\ [][NextRace]_vars

\* C20: under every interleaving of category deletions with item creations and
\* reassignments, no item names a category that has been deleted
C20_NoItemOfDeletedCategory ==
    \A i \in Ids(family.items) :
        db[family.items][i].categoryId \notin InitialCategoryIds \ Ids(family.cats)

----------------------------------------------------------------------------
(* Two calls on the same store at once: item deletes and reassignments, each
   with its read and its batch as separate steps *)

\* the two callers, and the categories of their store
Slots == <<"first", "second">>
OverlapCategoryIds == {"c1", "c2", "c3"}

Calls == {run \in pending : run.op = "call"}
Settled == {run \in Calls : run.stage = "done"}

\* what a call knows after `await ...doc(id).get()`: whether the item exists and
\* its categoryId; seen is the number of calls that had completed by then
ItemRead(fam, route, id, body) ==
    [op |-> "call", route |-> route, slot |-> Slots[Cardinality(Calls) + 1],
     id |-> id, body |-> body,
     exists |-> id \in Ids(fam.items),
     categoryId |-> IF id \in Ids(fam.items) THEN db[fam.items][id].categoryId ELSE "",
     seen |-> Cardinality(Settled), stage |-> "read", status |-> "", order |-> 0]

\* the call has answered: order is its place among the completed calls
Settle(run, status) ==
    (pending \ {run}) \cup
        {[run EXCEPT !.stage = "done", !.status = status,
                     !.order = Cardinality(Settled) + 1]}

\* mutant of OldCategory: the category is read again inside the write
OldCategoryReadAgain(fam, run) ==
    IF run.id \in Ids(fam.items) THEN db[fam.items][run.id].categoryId ELSE run.categoryId

\* existingDoc.data().categoryId: the category as the call read it before its batch
OldCategory(fam, run) == run.categoryId

\* DELETE /items/:id and deleteAllergenItem up to the batch: the item is read
DeleteItemGets(fam) ==
    \E id \in Ids(fam.items) \cup {UnknownId} :
        /\ Cardinality(Calls) < Len(Slots)
        /\ pending' = pending \cup {ItemRead(fam, "DELETE item", id, EmptyObject)}
        /\ UNCHANGED <<db, nextId, family, session, last>>

\* the rest of the delete: 404 if the read found nothing, else the batch
DeleteItemCommits(fam) ==
    \E run \in Calls \ Settled :
        /\ run.route = "DELETE item"
        /\ UNCHANGED <<nextId, family, session>>
        /\ IF ~run.exists
           THEN /\ last' = Done("DELETE " \o fam.path, "404")
                /\ pending' = Settle(run, "404")
                /\ UNCHANGED db
           ELSE LET ws == DeleteItemWrites(fam, run.id, OldCategory(fam, run))
                    status == IF CommitOK(db, ws) THEN "200" ELSE "500"
                IN  /\ db' = Commit(db, ws)
                    /\ last' = Done("DELETE " \o fam.path, status)
                    /\ pending' = Settle(run, status)

\* PUT /items/:id and updateItem with a categoryId, up to the batch
PutItemGets(fam) ==
    \E id \in Ids(fam.items) \cup {UnknownId}, categoryId \in OverlapCategoryIds :
        /\ Cardinality(Calls) < Len(Slots)
        /\ pending' = pending \cup
               {ItemRead(fam, "PUT item", id, [categoryId |-> categoryId])}
        /\ UNCHANGED <<db, nextId, family, session, last>>

\* the rest of the update: the three-write batch if the item read had another
\* category, else the plain update
PutItemCommits(fam) ==
    \E run \in Calls \ Settled :
        LET ws == IF run.exists /\ run.categoryId # run.body.categoryId
                  THEN ReassignWrites(fam, run.id, run.body, OldCategory(fam, run),
                                      run.body.categoryId)
                  ELSE << UpdW(fam.items, run.id, run.body, 0) >>
            status == IF CommitOK(db, ws) THEN "200" ELSE "500"
        IN  /\ run.route = "PUT item"
            /\ UNCHANGED <<nextId, family, session>>
            /\ db' = Commit(db, ws)
            /\ last' = Done("PUT " \o fam.path, status)
            /\ pending' = Settle(run, status)

\* a store with three categories and no items
InitOverlap ==
    /\ family \in Families
    /\ db = [EmptyDb EXCEPT ![family.cats] =
                [c \in OverlapCategoryIds |->
                    NewCategory([name |-> c, displayOrder |-> 0])]]
    /\ nextId = NoIds
    /\ last = Done("init", "")
    /\ pending = {}
    /\ session = NoSession

NextOverlap ==
    \/ PostItem(family) /\ Quiet
    \/ DeleteItemGets(family)
    \/ DeleteItemCommits(family)
    \/ PutItemGets(family)
    \/ PutItemCommits(family)

SpecOverlap == InitOverlap /\ [][NextOverlap]_vars

\* C21: the stored itemCount of a category is never negative
C21_CountNeverNegative ==
    \A c \in Ids(family.cats) : ItemCount(db, family, c) >= 0

\* the completed calls that moved an item to another category
Moves ==
    {run \in Settled : /\ run.route = "PUT item" /\ run.status = "200"
                       /\ run.exists /\ run.categoryId # run.body.categoryId}

\* C22: of two completed reassignments of the same item, if the second to commit
\* had read the item before the first committed, then both read the same old
\* category, the item is in the category of the last commit, the old category
\* counts one item too few and the first target one too many (two too many
\* increments never happen: a shared target counts the one item twice), so the
\* counts are not exact, now or after later creations; if the second read the
\* item after the first had committed, the counts are exact
C22_OverlappingReassignmentsSkewCounts ==
    \A a, b \in Moves :
        (a.order = 1 /\ b.order = 2 /\ a.id = b.id) =>
            IF b.seen = 0
            THEN /\ b.categoryId = a.categoryId
                 /\ db[family.items][a.id].categoryId = b.body.categoryId
                 /\ ItemCount(db, family, a.categoryId)
                        = Tally(db, family, a.categoryId) - 1
                 /\ ItemCount(db, family, a.body.categoryId)
                        = Tally(db, family, a.body.categoryId) + 1
                 /\ b.body.categoryId # a.body.categoryId =>
                        ItemCount(db, family, b.body.categoryId)
                            = Tally(db, family, b.body.categoryId)
                 /\ ~Consistent(db, family)
            ELSE Consistent(db, family)

\* two reassignments of an item of c1 that overlapped, to c2 and then to c3: the
\* item is in c3, and c2 counts an item it does not have
C22_Witness ==
    \E a, b \in Moves :
        /\ a.order = 1 /\ b.order = 2 /\ a.id = b.id /\ b.seen = 0
        /\ a.categoryId = "c1" /\ a.body.categoryId = "c2" /\ b.body.categoryId = "c3"
        /\ db[family.items][a.id].categoryId = "c3"
        /\ ItemCount(db, family, "c2") = 1
        /\ Tally(db, family, "c2") = 0

----------------------------------------------------------------------------
(* Bulk create, batch by batch: POST /items/bulk, POST /allergen-items/bulk and,
   with the same loop, bulkCreateAllergenItems and the legacy bulkCreateItems *)

\* item documents handed out over a run with a bulk create in steps: one array
\* of full length
MaxBulkDocs == MaxRows

Bulks == {run \in pending : run.op = "bulk"}
BulksRunning == {run \in Bulks : run.stage # "done"}

\* mutant of BulkItemBatch: every item batch also counts its rows
BulkItemBatchCounted(fam, chunk) ==
    [j \in 1..Len(chunk) |-> SetW(fam.items, NewDocId(j), StoredItem(fam, chunk[j]))]
    \o CountBatch(fam.cats, chunk)

\* one item batch: set() of a fresh document per row of the chunk
BulkItemBatch(fam, chunk) ==
    [j \in 1..Len(chunk) |-> SetW(fam.items, NewDocId(j), StoredItem(fam, chunk[j]))]

\* the request arrives: 400 unless items is a non-empty array, else the loop starts
BulkBegin(fam) ==
    \E n \in 0..MaxRows : \E rows \in [1..n -> ItemForms(fam)] :
        /\ BulksRunning = {}
        /\ nextId.doc + n <= MaxBulkDocs
        /\ UNCHANGED <<db, nextId, family, session>>
        /\ IF rows = << >>
           THEN /\ last' = Done("POST " \o fam.path \o "/bulk", "400")
                /\ UNCHANGED pending
           ELSE /\ pending' = (pending \ Bulks) \cup
                       {[op |-> "bulk", rows |-> rows, k |-> 1, stage |-> "items",
                         status |-> "", exact |-> Consistent(db, fam)]}
                /\ UNCHANGED last

\* one turn of the loop: the k-th item batch commits
BulkItems(fam) ==
    \E run \in BulksRunning :
        LET chunk == Chunk(run.rows, RestBatchSize, run.k)
        IN  /\ run.stage = "items"
            /\ db' = Commit(db, BulkItemBatch(fam, chunk))
            /\ nextId' = [nextId EXCEPT !.doc = @ + Len(chunk)]
            /\ pending' = (pending \ {run}) \cup
                   {[run EXCEPT !.k = @ + 1,
                                !.stage = IF run.k = NumChunks(run.rows, RestBatchSize)
                                          THEN "counts" ELSE "items"]}
            /\ UNCHANGED <<family, session, last>>

\* after the loop: the count batch commits as a whole (201) or not at all (500)
BulkCounts(fam) ==
    \E run \in BulksRunning :
        LET countBatch == CountBatch(fam.cats, run.rows)
            status == IF CommitOK(db, countBatch) THEN "201" ELSE "500"
        IN  /\ run.stage = "counts"
            /\ db' = Commit(db, countBatch)
            /\ last' = Done("POST " \o fam.path \o "/bulk", status)
            /\ pending' = (pending \ {run}) \cup
                   {[run EXCEPT !.stage = "done", !.status = status,
                                !.rows = << >>, !.k = 0]}
            /\ UNCHANGED <<nextId, family, session>>

\* the process stops between two awaits: nothing more is written
BulkStops(fam) ==
    \E run \in BulksRunning :
        /\ pending' = (pending \ {run}) \cup
               {[run EXCEPT !.stage = "done", !.status = "stopped",
                            !.rows = << >>, !.k = 0]}
        /\ UNCHANGED <<db, nextId, family, session, last>>

NextBulk ==
    \/ BulkBegin(family)
    \/ BulkItems(family)
    \/ BulkCounts(family)
    \/ BulkStops(family)
    \/ DeleteItem(family) /\ Quiet

SpecBulk == Init /\ [][NextBulk]_vars

\* C23: while a bulk create runs, and after it has stopped or its count batch has
\* failed, no category's stored itemCount exceeds the number of its items; and
\* when the count batch of a bulk create that started from exact counts has
\* committed, the counts are exact
C23_BulkCountsStaleLowNeverHigh ==
    /\ \A c \in Ids(family.cats) : ItemCount(db, family, c) <= Tally(db, family, c)
    /\ \A run \in Bulks :
          (run.status = "201" /\ run.exact) => Consistent(db, family)

\* between the second item batch and the count batch of a bulk create of three
\* rows: the items of c1 are stored, and c1 counts none of them
C23_Witness ==
    \E run \in Bulks :
        /\ run.stage = "counts"
        /\ Len(run.rows) = MaxRows
        /\ Tally(db, family, "c1") >= 2
        /\ ItemCount(db, family, "c1") = 0

----------------------------------------------------------------------------
(* The nutrition import and the normalized bulkCreateItems, chunk by chunk: every
   `await batch.commit()` is a step that commits the batch or rejects *)

\* longest input of a call in steps: a full chunk and one row more
MaxChunkRows == ImportBatchSize + 1

Chunked == {run \in pending : run.op = "chunks"}

\* rows per commit: the import hands bulkCreateItems one chunk at a time, a direct
\* call of bulkCreateItems cuts its input itself
ChunkSize(run) ==
    IF run.caller = "handleNutritionImport" THEN ImportBatchSize ELSE NormBatchSize

\* the loop state of a call that starts now
ChunkRun(caller, items) ==
    [op |-> "chunks", caller |-> caller, items |-> items, k |-> 1, seen |-> << >>,
     row0 |-> nextId.row]

\* mutant of Rethrown: the rejected chunk is skipped and the loop goes on
SkippedChunk(run) ==
    IF run.k < NumChunks(run.items, ChunkSize(run))
    THEN {[run EXCEPT !.k = @ + 1]} ELSE {}

\* what is left of a call whose commit rejected: nothing, the exception leaves
\* both loops
Rethrown(run) == {}

\* Import is pressed: the page shows the import as running
\* (setNutritionImporting(true)), the categories are resolved, then the chunk loop
\* starts
ImportBegin ==
    \E n \in {k \in 0..MaxChunkRows : RowRoom(k)} :
      \E jsonStr \in NutritionFiles(n) :
        LET nutritionPreview == parseNutritionJson(jsonStr)
            resolved == ResolveCategories(
                            [d |-> db, categoryIdMap |-> << >>, cat |-> nextId.cat, created |-> 0],
                            db, nutritionPreview.categories, 1)
            itemsToCreate == ItemsToCreate(nutritionPreview.items, resolved.categoryIdMap)
        IN  /\ nutritionPreview # Null
            /\ Chunked = {}
            /\ nextId.cat + Len(nutritionPreview.categories) <= MaxNewCategories
            /\ db' = resolved.d
            /\ nextId' = [nextId EXCEPT !.cat = resolved.cat]
            /\ UNCHANGED <<family, session>>
            /\ IF itemsToCreate = << >>
               THEN /\ last' = Returned("handleNutritionImport", "ok", [rows |-> 0])
                    /\ UNCHANGED pending
               ELSE /\ pending' = pending \cup
                           {ChunkRun("handleNutritionImport", itemsToCreate)}
                    /\ last' = Done("handleNutritionImport", "importing")

\* bulkCreateItems is called with an array of forms
BulkCreateBegin ==
    \E n \in {k \in 1..MaxChunkRows : RowRoom(k)} :
      \E items \in [1..n -> NormItemForms] :
        /\ Chunked = {}
        /\ pending' = pending \cup {ChunkRun("bulkCreateItems", items)}
        /\ last' = Done("bulkCreateItems", "pending")
        /\ UNCHANGED <<db, nextId, family, session>>

\* the commit of the next chunk succeeds; after the last chunk the call reports
\* success
ChunkCommits ==
    \E run \in Chunked :
        LET chunk == Chunk(run.items, ChunkSize(run), run.k)
            st == bulkCreateItemsFrom(
                      [BulkStart(db, nextId.doc, nextId.row) EXCEPT !.seen = run.seen],
                      chunk, 1)
        IN  /\ st.doc <= MaxDocs
            /\ db' = st.d
            /\ nextId' = [nextId EXCEPT !.doc = st.doc, !.row = st.row]
            /\ UNCHANGED <<family, session>>
            /\ IF run.k < NumChunks(run.items, ChunkSize(run))
               THEN /\ pending' = (pending \ {run}) \cup
                           {[run EXCEPT !.k = @ + 1,
                                        !.seen = IF run.caller = "bulkCreateItems"
                                                 THEN st.seen ELSE << >>]}
                    /\ UNCHANGED last
               ELSE /\ pending' = pending \ {run}
                    /\ last' = Returned(run.caller, "ok", [rows |-> Len(run.items)])

\* the commit of the next chunk rejects: bulkCreateItems throws, and the import
\* shows 'Import failed'
ChunkFails ==
    \E run \in Chunked :
        /\ pending' = (pending \ {run}) \cup Rethrown(run)
        /\ last' = Returned(run.caller, "failed", [rows |-> nextId.row - run.row0])
        /\ UNCHANGED <<db, nextId, family, session>>

\* a store with the two categories and no items
InitChunks ==
    /\ family = Menu
    /\ db = [EmptyDb EXCEPT !["categories"] = InitialCategories]
    /\ nextId = NoIds
    /\ last = Done("init", "")
    /\ pending = {}
    /\ session = NoSession

NextChunks ==
    \/ ImportBegin
    \/ BulkCreateBegin
    \/ ChunkCommits
    \/ ChunkFails

SpecChunks == InitChunks /\ [][NextChunks]_vars

\* the assignment rows a step wrote, in the order of their ids
RowsWritten ==
    [j \in 1..(nextId'.row - nextId.row) |-> db'["item_categories"][NewRowId(j)]]

\* C24: chunks are committed one after another and each as a whole. Before any
\* step of a running call the chunks before the next one are committed in full;
\* a step either commits exactly the rows of the next chunk, or fails, and then
\* it writes nothing, the call ends there and reports the failure; success is
\* reported only by the commit of the last chunk, and base items and assignment
\* rows are written by no step but a commit of a running call
C24_ChunksCommitInOrder ==
    [][/\ \A run \in Chunked :
            LET chunk == Chunk(run.items, ChunkSize(run), run.k)
            IN  /\ nextId.row - run.row0 = (run.k - 1) * ChunkSize(run)
                /\ \A a \in 1..(nextId.row - run.row0) :
                       RowIdPool[run.row0 + a] \in DOMAIN db["item_categories"]
                /\ IF last'.status = "failed"
                   THEN /\ db' = db /\ nextId' = nextId
                        /\ Chunked' = {}
                        /\ last'.op = run.caller
                   ELSE /\ Len(RowsWritten) = Len(chunk)
                        /\ \A j \in 1..Len(chunk) :
                               RowsWritten[j].categoryId = chunk[j].categoryId
                        /\ \A c \in {"base_items", "item_categories"} :
                               DOMAIN db[c] \subseteq DOMAIN db'[c]
                        /\ IF run.k = NumChunks(run.items, ChunkSize(run))
                           THEN /\ last'.status = "ok" /\ Chunked' = {}
                                /\ nextId'.row - run.row0 = Len(run.items)
                           ELSE /\ last' = last
                                /\ \E next \in Chunked' : next.k = run.k + 1
       /\ Chunked = {} =>
            /\ db'["base_items"] = db["base_items"]
            /\ db'["item_categories"] = db["item_categories"]
            /\ last'.status # "failed"]_vars

\* an import of three rows whose second chunk was rejected: the two rows of the
\* first chunk are stored, the third is not, and the import has reported failure
C24_Witness ==
    /\ last.op = "handleNutritionImport"
    /\ last.status = "failed"
    /\ last.data.rows = ImportBatchSize
    /\ Cardinality(Ids("item_categories")) = ImportBatchSize
    /\ Chunked = {}

----------------------------------------------------------------------------
(* Importing the same file again *)

\* the base items stored before the step that an earlier import made from a row
\* like `row`: same fingerprint, and assigned to the category the row names
StoredFor(row) ==
    {b \in DOMAIN db["base_items"] :
        /\ Fingerprint(db["base_items"][b]) = RowFingerprint(row)
        /\ \E a \in AssignmentsOf(db, b) :
              LET c == db["item_categories"][a].categoryId
              IN  c \in DOMAIN db["categories"] /\ db["categories"][c].name = row.category}

\* C25: an import of a row that an earlier import has already stored (same
\* lower-cased name and nutrition, same category) creates no base item with that
\* fingerprint, and creates one more assignment row for the row's category
C25_RerunAddsRowsNotBaseItems ==
    [][ last'.op = "handleNutritionImport" /\ last'.status = "ok" =>
          \A i \in 1..Len(last'.data.items) :
              LET row == last'.data.items[i]
              IN  StoredFor(row) # {} =>
                    /\ \A b \in NewBaseItems :
                          Fingerprint(db'["base_items"][b]) # RowFingerprint(row)
                    /\ \E a \in DOMAIN db'["item_categories"] \ DOMAIN db["item_categories"] :
                          LET c == db'["item_categories"][a].categoryId
                          IN  c \in DOMAIN db'["categories"]
                              /\ db'["categories"][c].name = row.category
      ]_vars

----------------------------------------------------------------------------
(* What one migration writes *)

\* the fingerprint of a legacy document or a base item: the lower-cased name and
\* the nutrition with every key of the template
NormalizedFingerprint(data) ==
    [name |-> ToLowerCase(StrOr(data, "name", "")), nutrition |-> NutritionOf(data)]

\* the (fingerprint, category) pair a legacy item stands for, and the one an
\* assignment row links
LegacyPair(i) ==
    << NormalizedFingerprint(db["items"][i]), StrOr(db["items"][i], "categoryId", "") >>
RowPair(a) ==
    << NormalizedFingerprint(db["base_items"][db["item_categories"][a].itemId]),
       db["item_categories"][a].categoryId >>

\* C26: after one complete migration of L >= 1 legacy items there is exactly one
\* base item per distinct fingerprint of the legacy items and there are exactly L
\* assignment rows, as many for each (fingerprint, categoryId) pair as there are
\* legacy items of that pair, every row pointing at a stored base item; the
\* counts returned are the numbers of base items and rows written. Over an empty
\* legacy collection the migration writes nothing and returns zeros.
C26_MigrationCopiesAndDedupes ==
    /\ Ids("items") = {} =>
          /\ Ids("base_items") = {} /\ Ids("item_categories") = {}
          /\ last.op = "migrateFromLegacyItems" =>
                last.data = [baseItems |-> 0, assignments |-> 0]
    /\ MigratedOnce =>
          /\ Cardinality(Ids("item_categories")) = Cardinality(Ids("items"))
          /\ \A a \in Ids("item_categories") :
                db["item_categories"][a].itemId \in Ids("base_items")
          /\ \A b1, b2 \in Ids("base_items") :
                NormalizedFingerprint(db["base_items"][b1])
                    = NormalizedFingerprint(db["base_items"][b2]) => b1 = b2
          /\ {NormalizedFingerprint(db["base_items"][b]) : b \in Ids("base_items")}
                = {NormalizedFingerprint(db["items"][i]) : i \in Ids("items")}
          /\ \A i \in Ids("items") :
                Cardinality({a \in Ids("item_categories") : RowPair(a) = LegacyPair(i)})
                    = Cardinality({j \in Ids("items") : LegacyPair(j) = LegacyPair(i)})
          /\ last.op = "migrateFromLegacyItems" =>
                last.data = [baseItems |-> Cardinality(Ids("base_items")),
                             assignments |-> Cardinality(Ids("item_categories"))]

\* a migration of three legacy items in two batches, two of them with the same
\* fingerprint but different categories: two base items, three rows
C26_Witness ==
    /\ MigratedOnce
    /\ last.op = "migrateFromLegacyItems"
    /\ last.data = [baseItems |-> 2, assignments |-> 3]
    /\ \E i, j \in Ids("items") :
          /\ LegacyPair(i)[1] = LegacyPair(j)[1]
          /\ LegacyPair(i)[2] # LegacyPair(j)[2]

----------------------------------------------------------------------------
(* Reading a normalized store: the list read and the single read side by side *)

\* normalized stores: the two categories, one or two base items, and any
\* assignment rows between them (none for an item included)
ViewStores ==
    UNION {
    {[EmptyDb EXCEPT !["categories"] = InitialCategories,
                     !["base_items"] =
                         [b \in base |-> BulkBaseItem([name |-> IF b = "d1" THEN "Taco" ELSE "taco"])],
                     !["item_categories"] =
                         [a \in rows |->
                             AssignmentRow(IF a = "a3" THEN "d2" ELSE "d1",
                                           IF a = "a2" THEN "c2" ELSE "c1")]] :
        rows \in {r \in SUBSET {"a1", "a2", "a3"} : "a3" \in r => "d2" \in base}} :
        base \in {{"d1"}, {"d1", "d2"}} }

InitView ==
    /\ family = Menu
    /\ db \in ViewStores
    /\ nextId = [cat |-> 0, doc |-> MaxDocs, row |-> MaxAssignments]
    /\ last = Done("init", "")
    /\ pending = {}
    /\ session = NoSession

NextView ==
    \/ GetItemsBegin
    \/ GetItemsEnd
    \/ NormGetItem /\ Quiet

SpecView == InitView /\ [][NextView]_vars

\* the category a read gave an item
CategoryShown(item) == [categoryId |-> item.categoryId, categoryName |-> item.categoryName]

\* the category an item has in a store: that of one of its assignment rows, or
\* '' / 'Uncategorized' when it has none
CategoriesOf(d, id) ==
    IF AssignmentsOf(d, id) = {}
    THEN {[categoryId |-> "", categoryName |-> "Uncategorized"]}
    ELSE {[categoryId |-> d["item_categories"][a].categoryId,
           categoryName |-> d["categories"][d["item_categories"][a].categoryId].name] :
             a \in AssignmentsOf(d, id)}

\* C27: every read of a base item, by getItems or by getItem, shows the category
\* of one of its assignment rows, and '' / 'Uncategorized' when it has none
C27_ReadsAgreeOnCategory ==
    /\ (last.op = "getItem" /\ last.status = "ok") =>
          CategoryShown(last.data) \in CategoriesOf(db, last.data.id)
    /\ last.op = "getItems" =>
          \A i \in DOMAIN last.data.items :
              last.data.items[i].id \in Ids("base_items") =>
                  CategoryShown(last.data.items[i]) \in CategoriesOf(db, last.data.items[i].id)

----------------------------------------------------------------------------
(* Reading categories: the counts getCategories and getCategory report *)

\* the rows of collection coll whose categoryId is c
RowsOf(d, coll, c) == {r \in DOMAIN d[coll] : StrOr(d[coll][r], "categoryId", "") = c}

\* getCategories: countByCategory over the legacy items if base_items is empty,
\* else over the assignment rows; countByCategory[id] ?? data.itemCount ?? 0
getCategories ==
    LET useLegacy == DOMAIN db["base_items"] = {}
        counted == IF useLegacy THEN "items" ELSE "item_categories"
        itemCount(c) ==
            IF RowsOf(db, counted, c) # {} THEN Cardinality(RowsOf(db, counted, c))
            ELSE IF Has(db["categories"][c], "itemCount") THEN db["categories"][c].itemCount
            ELSE 0
    IN  /\ last' = Returned("getCategories", "ok",
                            [c \in Ids("categories") |-> itemCount(c)])
        /\ UNCHANGED <<db, nextId>>

\* getCategory: the number of assignment rows of the category
getCategory ==
    \E id \in Ids("categories") \cup {UnknownId} :
        /\ last' = IF id \in Ids("categories")
                   THEN Returned("getCategory", "ok",
                                 [id |-> id,
                                  itemCount |-> Cardinality(RowsOf(db, "item_categories", id))])
                   ELSE Done("getCategory", "null")
        /\ UNCHANGED <<db, nextId>>

\* a store with the two categories; items arrive through the REST API (legacy
\* documents, counted) and through the normalized service (rows, not counted)
InitCounts ==
    /\ family = Menu
    /\ db = [EmptyDb EXCEPT !["categories"] = InitialCategories]
    /\ nextId = NoIds
    /\ last = Done("init", "")
    /\ pending = {}
    /\ session = NoSession

NextCounts ==
    \/ PostItem(family) /\ Quiet
    \/ NormCreateItem /\ Quiet
    \/ getCategories /\ Quiet
    \/ getCategory /\ Quiet

SpecCounts == InitCounts /\ [][NextCounts]_vars

\* the tally under the active schema
FreshTally(d, c) ==
    IF DOMAIN d["base_items"] = {} THEN Cardinality(RowsOf(d, "items", c))
    ELSE Cardinality(RowsOf(d, "item_categories", c))

\* C28: whatever the store holds, getCategories reports for every category, and
\* getCategory for the category asked for, the number of rows that reference it
\* under the active schema (legacy items while base_items is empty, assignment
\* rows otherwise), 0 when none does
C28_ReportedCountIsFreshTally ==
    [][/\ last'.op = "getCategories" =>
            \A c \in Ids("categories") : last'.data[c] = FreshTally(db, c)
       /\ (last'.op = "getCategory" /\ last'.status = "ok") =>
            last'.data.itemCount = FreshTally(db, last'.data.id)]_vars

----------------------------------------------------------------------------
(* Imports whose category names differ in case only *)

CasedNames == {"Entrees", "ENTREES", "Salsas", "salsas"}
CasedRows == {[name |-> "Taco", category |-> c] : c \in CasedNames}
CasedFiles(n) == {[kind |-> "array", value |-> data] : data \in [1..n -> CasedRows]}

\* handleNutritionImport of a file whose rows name their categories in any case
handleCasedImport ==
    \E n \in {k \in 1..MaxRows : RowRoom(k)} :
      \E jsonStr \in CasedFiles(n) :
        LET nutritionPreview == parseNutritionJson(jsonStr)
            resolved == ResolveCategories(
                            [d |-> db, categoryIdMap |-> << >>, cat |-> nextId.cat, created |-> 0],
                            db, nutritionPreview.categories, 1)
            st == ImportChunks(BulkStart(resolved.d, nextId.doc, nextId.row),
                               ItemsToCreate(nutritionPreview.items, resolved.categoryIdMap), 1)
        IN  /\ nextId.cat + Len(nutritionPreview.categories) <= MaxNewCategories
            /\ st.doc <= MaxDocs
            /\ db' = st.d
            /\ nextId' = [cat |-> resolved.cat, doc |-> st.doc, row |-> st.row]
            /\ last' = Returned("handleNutritionImport", "ok",
                                [items |-> nutritionPreview.items, file |-> jsonStr])

InitCased ==
    /\ family = Menu
    /\ db = [EmptyDb EXCEPT !["categories"] = InitialCategories]
    /\ nextId = NoIds
    /\ last = Done("init", "")
    /\ pending = {}
    /\ session = NoSession

NextCased ==
    \/ handleCasedImport /\ Quiet
    \/ NormDeleteItem /\ Quiet

SpecCased == InitCased /\ [][NextCased]_vars

\* the categories of d whose name equals name up to case
SameName(d, name) ==
    {c \in DOMAIN d["categories"] : ToLowerCase(d["categories"][c].name) = ToLowerCase(name)}

\* C29: an import creates a category for a name only if no category of that
\* name (up to case) is stored or was created earlier in the import, so that
\* one category is created per missing name and no created category shares its
\* name up to case with another; the k-th category created gets displayOrder
\* (number of categories before the import) + k
C29_ImportCreatesMissingCategoriesOnce ==
    [][(last'.op = "handleNutritionImport" /\ last'.status = "ok") =>
        LET names == parseNutritionJson(last'.data.file).categories
            created == DOMAIN db'["categories"] \ DOMAIN db["categories"]
            missing == {ToLowerCase(names[i]) : i \in {j \in 1..Len(names) :
                                                          SameName(db, names[j]) = {}}}
        IN  /\ Cardinality(created) = Cardinality(missing)
            /\ \A c \in created : SameName(db', db'["categories"][c].name) = {c}
            /\ \A k \in 1..Cardinality(created) :
                   db'["categories"][CatIdPool[nextId.cat + k]].displayOrder =
                       Cardinality(DOMAIN db["categories"]) + k]_vars

----------------------------------------------------------------------------
(* Deleting an item that does not exist *)

CountedDeleteOps == {"DELETE " \o f.path : f \in Families} \cup {"deleteItem"}

\* C30: a delete naming an id that is not stored fails with a not-found error
\* and leaves the store as it was, in the REST handlers and in every service
\* (the normalized deleteItem reports the id it was given; a counted delete
\* that removed no item and did not fail in its batch named a missing id)
C30_DeleteOfMissingIdFails ==
    [][/\ (last'.op = "deleteItem (normalized)" /\ last'.data.id \notin Ids("base_items")) =>
            last'.status = "not found" /\ db' = db
       /\ (/\ last'.op \in CountedDeleteOps
           /\ DOMAIN db'[family.items] = DOMAIN db[family.items]
           /\ last'.status \notin {"500", "throw"}) =>
            last'.status \in {"404", "not found"} /\ db' = db]_vars

====
